---------------------------- MODULE Spec2Model ----------------------------
(***************************************************************************)
(* A model of the CX Assistant MCP server's parameter pipeline:            *)
(*   lookup.py  - the lookup gateway (search_customers, get_list and the   *)
(*                two selection strategies built on get_list);             *)
(*   routing.py - the customer extraction rule;                            *)
(*   server.py  - _build_dependent_body and _resolve_params_with_lookups.  *)
(*                                                                         *)
(* Python strings are sequences of one-character strings, so that          *)
(* lower(), `in` (substring) and the regular expressions are computed and  *)
(* not assumed.  A JSON / Python value is a record [k, s]: k is "absent"   *)
(* (the key is missing), "null" (None), "str" (s is the text) or "list"    *)
(* (a one-element list; s is the element's text, en tells a None element). *)
(***************************************************************************)
EXTENDS Integers, Sequences, FiniteSets, TLC

(***************************************************************************)
(* Bounds of the model.                                                    *)
(***************************************************************************)
\* longest option / customer / deployment list a lookup response carries
MaxOptions == 2
\* most parameter definitions of a question
MaxParams == 2
\* most words of a user message
MaxWords == 2

(***************************************************************************)
(* Text.                                                                   *)
(***************************************************************************)
UpperToLower ==
    ("A" :> "a") @@ ("B" :> "b") @@ ("C" :> "c") @@ ("D" :> "d") @@
    ("E" :> "e") @@ ("F" :> "f") @@ ("G" :> "g") @@ ("H" :> "h") @@
    ("I" :> "i") @@ ("J" :> "j") @@ ("K" :> "k") @@ ("L" :> "l") @@
    ("M" :> "m") @@ ("N" :> "n") @@ ("O" :> "o") @@ ("P" :> "p") @@
    ("Q" :> "q") @@ ("R" :> "r") @@ ("S" :> "s") @@ ("T" :> "t") @@
    ("U" :> "u") @@ ("V" :> "v") @@ ("W" :> "w") @@ ("X" :> "x") @@
    ("Y" :> "y") @@ ("Z" :> "z")

Digits == {"0", "1", "2", "3", "4", "5", "6", "7", "8", "9"}
UpperLetters == DOMAIN UpperToLower
LowerLetters == {UpperToLower[c] : c \in UpperLetters}
Letters == UpperLetters \cup LowerLetters
\* the characters the regular expressions' \w matches
WordChars == Letters \cup Digits \cup {"_"}

\* str.lower()
Lower(t) ==
    [i \in 1..Len(t) |->
        IF t[i] \in UpperLetters THEN UpperToLower[t[i]] ELSE t[i]]

\* Python's `needle in hay` on strings
Contains(needle, hay) ==
    \E i \in 0..(Len(hay) - Len(needle)) :
        SubSeq(hay, i + 1, i + Len(needle)) = needle

\* str.strip() for the only white space the messages hold, the blank
RECURSIVE Strip(_)
Strip(t) ==
    IF t = <<>> THEN t
    ELSE IF Head(t) = " " THEN Strip(Tail(t))
    ELSE IF t[Len(t)] = " " THEN Strip(SubSeq(t, 1, Len(t) - 1))
    ELSE t

T_primary == <<"p", "r", "i", "m", "a", "r", "y">>
T_None == <<"N", "o", "n", "e">>
T_sep == <<" ", "|", " ">>
T_PrimaryTag == <<"[", "P", "r", "i", "m", "a", "r", "y", "]", " ">>

(***************************************************************************)
(* Values.                                                                 *)
(***************************************************************************)
Absent == [k |-> "absent", s |-> <<>>, en |-> FALSE]
Null == [k |-> "null", s |-> <<>>, en |-> FALSE]
Str(t) == [k |-> "str", s |-> t, en |-> FALSE]
\* [v]: a "list" for a scalar v, "nested" for a v that is a list itself
ListOf(v) ==
    IF v.k \in {"list", "nested"}
    THEN [k |-> "nested", s |-> v.s, en |-> v.en]
    ELSE [k |-> "list", s |-> v.s, en |-> (v.k = "null")]

\* Python truthiness of what dict.get returns
Truthy(v) == \/ v.k \in {"list", "nested"}
             \/ v.k = "str" /\ v.s # <<>>
\* a or b
Or(a, b) == IF Truthy(a) THEN a ELSE b
\* dict.get(key): a missing key reads as None
Get(v) == IF v.k = "absent" THEN Null ELSE v
\* dict.get(key, default)
GetOr(v, default) == IF v.k = "absent" THEN default ELSE v
\* (opt.get(key) or "").lower()
LowerOrEmpty(v) == IF Truthy(v) THEN Lower(v.s) ELSE <<>>
\* how an f-string prints a value
Fmt(v) == IF v.k = "null" THEN T_None ELSE v.s


(***************************************************************************)
(* What the backend answers (lookup.py reads it through httpx).            *)
(*                                                                         *)
(* A response is a transport error, or a status with a body.  A body is    *)
(* not JSON, JSON that is no object (a list, null), or an object with the  *)
(* keys "results", "data" and "deploymentList", each absent, null, a list, *)
(* or (results) an object with an "attributes" object.                     *)
(***************************************************************************)
SeqsUpTo(S, n) == UNION {[1..m -> S] : m \in 0..n}

\* an element of a "results" list: an object (its fields may be missing or
\* null) or a plain string (its text is in label)
Item(shape, label, value, summary, oid, name) ==
    [shape |-> shape, label |-> label, value |-> value,
     summary |-> summary, oid |-> oid, name |-> name]
ObjItem(label, value) == Item("obj", label, value, Absent, Absent, Absent)
ScalarItem(t) == Item("scalar", Str(t), Absent, Absent, Absent, Absent)

\* an element of a "deploymentList" list; flag is isPrimaryFlag: "absent",
\* the booleans "true" / "false", or the strings "True" (strTrue), "no" (strNo)
DepItem(shape, name, party, city, flag) ==
    [shape |-> shape, name |-> name, party |-> party, city |-> city,
     flag |-> flag]

\* str(r) of an object, as Python prints a dict of strings and None:
\* {'label': 'A', 'value': None}
T_label == <<"l", "a", "b", "e", "l">>
T_value == <<"v", "a", "l", "u", "e">>
T_OUTCOME_SUMMARY == <<"O", "U", "T", "C", "O", "M", "E", "_",
                       "S", "U", "M", "M", "A", "R", "Y">>
T_OUTCOME_ID == <<"O", "U", "T", "C", "O", "M", "E", "_", "I", "D">>
T_name == <<"n", "a", "m", "e">>

ReprVal(v) == IF v.k = "null" THEN T_None ELSE <<"'">> \o v.s \o <<"'">>

RECURSIVE ReprFields(_)
ReprFields(fs) ==
    IF fs = <<>> THEN <<>>
    ELSE LET rest == ReprFields(Tail(fs))
         IN  <<"'">> \o Head(fs)[1] \o <<"'", ":", " ">>
                \o ReprVal(Head(fs)[2])
                \o (IF rest = <<>> THEN <<>> ELSE <<",", " ">> \o rest)

Repr(r) ==
    LET present(f) == f[2].k # "absent"
    IN  <<"{">>
        \o ReprFields(SelectSeq(
                << <<T_label, r.label>>, <<T_value, r.value>>,
                   <<T_OUTCOME_SUMMARY, r.summary>>,
                   <<T_OUTCOME_ID, r.oid>>, <<T_name, r.name>> >>,
                present))
        \o <<"}">>

FldAbsent == [k |-> "absent", items |-> <<>>]
FldNull == [k |-> "null", items |-> <<>>]
FldList(items) == [k |-> "list", items |-> items]
\* results = {"attributes": {"customer_market_segment": seg,
\*                           "customer_industry_vertical": vert}}
FldAttrs(seg, vert) == [k |-> "attrs", items |-> <<>>, seg |-> seg, vert |-> vert]

BodyNotJson == [shape |-> "notjson", results |-> FldAbsent, data |-> FldAbsent,
                dl |-> FldAbsent]
BodyNonDict == [shape |-> "nondict", results |-> FldAbsent, data |-> FldAbsent,
                dl |-> FldAbsent]
BodyDict(results, data, dl) ==
    [shape |-> "dict", results |-> results, data |-> data, dl |-> dl]

NetErr == [kind |-> "neterr", status |-> 0, body |-> BodyNotJson]
Http(status, body) == [kind |-> "http", status |-> status, body |-> body]

(***************************************************************************)
(* lookup.py: the gateway.  A call's result is [raised, opts]: whether an  *)
(* exception left the function, else the list it returned.                 *)
(***************************************************************************)
Raised == [raised |-> TRUE, opts |-> <<>>]
Returned(opts) == [raised |-> FALSE, opts |-> opts]

Option(label, value, is_primary) ==
    [label |-> label, value |-> value, is_primary |-> is_primary]

\* one element of search_customers' list comprehension
CustomerOfItem(r) ==
    IF r.shape = "obj"
    THEN Option(GetOr(r.label, Str(Repr(r))), GetOr(r.value, Str(Repr(r))), FALSE)
    ELSE Option(r.label, r.label, FALSE)

search_customers(resp) ==
    IF resp.kind = "neterr" THEN Raised             \* client.post raises
    ELSE IF resp.status # 200 THEN Returned(<<>>)
    ELSE IF resp.body.shape = "notjson" THEN Raised \* resp.json() raises
    ELSE IF resp.body.shape = "nondict" THEN Raised \* data.get raises
    ELSE LET results == resp.body.results IN
         IF results.k = "absent" THEN Returned(<<>>)
         ELSE IF results.k = "list"
         THEN Returned([i \in 1..Len(results.items) |->
                            CustomerOfItem(results.items[i])])
         ELSE Returned(<<>>)

_normalize_list_item(r) ==
    IF r.shape # "obj" THEN Option(r.label, r.label, FALSE)
    ELSE Option(
        Or(Get(r.label), Or(Get(r.summary), Or(Get(r.name), Str(Repr(r))))),
        Or(Get(r.value), Or(Get(r.oid), Or(Get(r.summary),
            Or(Get(r.name), Str(Repr(r)))))),
        FALSE)

IsPrimaryFlag(flag) == flag \in {"true", "strTrue"}

DeploymentOfItem(dep) ==
    LET name == GetOr(dep.name, Str(<<>>))
        party == GetOr(dep.party, Str(<<>>))
        city == GetOr(dep.city, Str(<<>>))
        is_primary == IsPrimaryFlag(dep.flag)
        label == Fmt(name) \o T_sep \o Fmt(party) \o T_sep \o Fmt(city)
    IN  Option(Str(IF is_primary THEN T_PrimaryTag \o label ELSE label),
               name, is_primary)

RECURSIVE _parse_deployment_list(_)
_parse_deployment_list(deployment_list) ==
    IF deployment_list = <<>> THEN <<>>
    ELSE IF Head(deployment_list).shape # "obj"
    THEN _parse_deployment_list(Tail(deployment_list))
    ELSE <<DeploymentOfItem(Head(deployment_list))>>
            \o _parse_deployment_list(Tail(deployment_list))

NormalizeAll(items) == [i \in 1..Len(items) |-> _normalize_list_item(items[i])]

\* [{"label": str(v), "value": str(v)} for v in attrs[key]]
StrAll(items) ==
    [i \in 1..Len(items) |->
        LET t == IF items[i].shape = "obj" THEN Repr(items[i])
                 ELSE items[i].label.s
        IN  Option(Str(t), Str(t), FALSE)]

get_list(resp) ==
    IF resp.kind = "neterr" THEN Returned(<<>>)            \* except Exception
    ELSE IF resp.status # 200 THEN Returned(<<>>)
    ELSE IF resp.body.shape = "notjson" THEN Returned(<<>>) \* except Exception
    ELSE IF resp.body.shape = "nondict" THEN Raised  \* data.get, outside the try
    ELSE LET data == resp.body
             results == IF data.results.k # "absent" THEN data.results
                        ELSE data.data
         IN  IF data.dl.k = "list"
             THEN Returned(_parse_deployment_list(data.dl.items))
             ELSE IF data.dl.k = "null" THEN Raised  \* for dep in None
             ELSE IF results.k = "attrs" /\ results.seg.k = "list"
             THEN Returned(StrAll(results.seg.items))
             ELSE IF results.k = "attrs" /\ results.vert.k = "list"
             THEN Returned(StrAll(results.vert.items))
             ELSE IF results.k = "list"
             THEN Returned(NormalizeAll(results.items))
             ELSE Returned(<<>>)

\* the parameter names of LOOKUP_ENDPOINTS and ADOPTION_LOOKUP_ENDPOINTS, each
\* with its HTTP method
LOOKUP_ENDPOINTS ==
    [n \in {"productName", "businessEntity", "businessEntities",
            "subBusinessEntity", "subBusinessEntities",
            "subBusinessServiceCategoryMultiSelect", "metricName", "metrics",
            "marketSegment", "vertical", "pmg", "fiscalQuarter",
            "fiscalQuarters", "serviceOffer", "legacyServiceOffer"}
        |-> "POST"] @@
    [n \in {"riskFactor", "stages", "consumptionValue", "renewalProgramLead",
            "summaryCategory"} |-> "GET"]

ADOPTION_LOOKUP_ENDPOINTS ==
    [n \in {"productName", "deployment", "deploymentList", "featureName",
            "outcome", "outcomes"} |-> "POST"]

EndpointsOf(agent) ==
    IF agent = "adoption" THEN ADOPTION_LOOKUP_ENDPOINTS ELSE LOOKUP_ENDPOINTS

\* what resolve_remote_param and auto_select_remote_param return: None, or a
\* (value, label) pair, or an exception
NoneSel == [raised |-> FALSE, found |-> FALSE, value |-> Null, label |-> Null]
RaisedSel == [raised |-> TRUE, found |-> FALSE, value |-> Null, label |-> Null]
Sel(opt) == [raised |-> FALSE, found |-> TRUE, value |-> opt.value,
             label |-> opt.label]

\* the first element of a list whose test passed, as its index (0: none)
FirstIndex(hits) ==
    IF \E i \in 1..Len(hits) : hits[i]
    THEN CHOOSE i \in 1..Len(hits) :
            hits[i] /\ \A j \in 1..(i - 1) : ~hits[j]
    ELSE 0

\* auto_select_remote_param from `if not options` on
AutoSelectMutantDeclinesAmbiguous(param_name, prefer_primary, options) ==
    IF Len(options) = 1 THEN Sel(options[1]) ELSE NoneSel

AutoSelectMutantDefaultsOnEmpty(param_name, prefer_primary, options) ==
    Sel(Option(Str(<<>>), Str(<<>>), FALSE))

AutoSelectFrom(param_name, prefer_primary, options) ==
    IF options = <<>> THEN NoneSel
    ELSE LET n == Len(options)
             flagged == FirstIndex([i \in 1..n |-> options[i].is_primary])
             named == FirstIndex([i \in 1..n |->
                        Contains(T_primary, LowerOrEmpty(options[i].label))])
         IN  IF prefer_primary /\ param_name \in {"deployment", "deploymentList"}
                /\ flagged # 0
             THEN Sel(options[flagged])
             ELSE IF prefer_primary
                     /\ param_name \in {"deployment", "deploymentList"}
                     /\ named # 0
             THEN Sel(options[named])
             ELSE Sel(options[1])

auto_select_remote_param(agent, param_name, prefer_primary, resp) ==
    IF param_name \notin DOMAIN EndpointsOf(agent) THEN NoneSel
    ELSE LET got == get_list(resp) IN
         IF got.raised THEN RaisedSel
         ELSE AutoSelectFrom(param_name, prefer_primary, got.opts)

\* resolve_remote_param from `if not options` on
MatchFromMutantNoExactTier(param_name, user_text, options) ==
    IF options = <<>> THEN NoneSel
    ELSE IF user_text.k # "str" THEN RaisedSel
    ELSE LET t == Lower(Strip(user_text.s))
             n == Len(options)
             val(i) == LowerOrEmpty(options[i].value)
             lab(i) == LowerOrEmpty(options[i].label)
             flagged == FirstIndex([i \in 1..n |-> options[i].is_primary])
             partial == FirstIndex([i \in 1..n |->
                            \/ Contains(t, lab(i))
                            \/ Contains(lab(i), t)
                            \/ Contains(t, val(i))
                            \/ Contains(val(i), t)])
         IN  IF Contains(T_primary, t)
                /\ param_name \in {"deployment", "deploymentList"}
                /\ flagged # 0
             THEN Sel(options[flagged])
             ELSE IF partial # 0 THEN Sel(options[partial])
             ELSE NoneSel

MatchFrom(param_name, user_text, options) ==
    IF options = <<>> THEN NoneSel
    ELSE IF user_text.k # "str" THEN RaisedSel    \* user_text.strip() raises
    ELSE LET t == Lower(Strip(user_text.s))
             n == Len(options)
             val(i) == LowerOrEmpty(options[i].value)
             lab(i) == LowerOrEmpty(options[i].label)
             flagged == FirstIndex([i \in 1..n |-> options[i].is_primary])
             exact == FirstIndex([i \in 1..n |-> t = val(i) \/ t = lab(i)])
             partial == FirstIndex([i \in 1..n |->
                            \/ Contains(t, lab(i))
                            \/ Contains(lab(i), t)
                            \/ Contains(t, val(i))
                            \/ Contains(val(i), t)])
         IN  IF Contains(T_primary, t)
                /\ param_name \in {"deployment", "deploymentList"}
                /\ flagged # 0
             THEN Sel(options[flagged])
             ELSE IF exact # 0 THEN Sel(options[exact])
             ELSE IF partial # 0 THEN Sel(options[partial])
             ELSE NoneSel

resolve_remote_param(agent, param_name, user_text, resp) ==
    IF param_name \notin DOMAIN EndpointsOf(agent) THEN NoneSel
    ELSE LET got == get_list(resp) IN
         IF got.raised THEN RaisedSel
         ELSE MatchFrom(param_name, user_text, got.opts)

(***************************************************************************)
(* State.                                                                  *)
(***************************************************************************)
VARIABLES
    pc,             \* where the modelled call stands
    message,        \* the user's message, when the call started from one
    question,       \* the catalog question: [agent, parameters]
    extracted,      \* extract_parameters' dict, in insertion order: <<[name, val]>>
    ordered_names,  \* _resolve_params_with_lookups' sorted names
    idx,            \* the position of the for loop in ordered_names
    parameters,     \* the resolved map: name -> [label, value, hidden]
    unresolvable,   \* the unresolved list
    inflight,       \* the lookup calls awaiting their response
    calls,          \* every lookup call made so far, with what it returned
    probe,          \* a direct call of a function and its result
    reply,          \* how _ask_structured ended: what it returned or raised
    _CATALOG,       \* routing.py's cache of the catalog file
    log             \* the calls of routing.py's functions made in a row

vars == <<pc, message, question, extracted, ordered_names, idx, parameters,
          unresolvable, inflight, calls, probe, reply, _CATALOG, log>>

NoQuestion == [agent |-> "", parameters |-> <<>>]
NoProbe == [fn |-> "none", agent |-> "", name |-> "", prefer |-> FALSE,
            text |-> Null, resp |-> NetErr, got |-> Returned(<<>>),
            sel |-> NoneSel]
NoReply == [kind |-> "none", text |-> <<>>]
\* _CATALOG: list | None = None
NotLoaded == [loaded |-> FALSE, entries |-> <<>>]
Loaded(entries) == [loaded |-> TRUE, entries |-> entries]

(***************************************************************************)
(* The responses the model draws from.                                     *)
(***************************************************************************)
T_A == <<"A">>
T_a == <<"a">>
T_B == <<"B">>
T_b == <<"b">>
T_Acme == <<"A", "c", "m", "e">>
T_id == <<"1", "0", "4", "4", "6", "1">>

ResultItems ==
    { ObjItem(Str(T_A), Str(T_a)),
      ObjItem(Str(T_B), Str(T_b)),
      ObjItem(Str(T_Acme), Null),                   \* "value": null
      ObjItem(Absent, Str(T_id)),                   \* no "label"
      Item("obj", Absent, Absent, Str(<<"S">>), Str(<<"7">>), Absent),
      ScalarItem(<<"W">>) }

DeploymentItems ==
    { DepItem("obj", Str(<<"n">>), Str(<<"p">>), Str(<<"c">>), "true"),
      DepItem("obj", Str(<<"w">>), Str(<<"p">>), Absent, "false"),
      DepItem("obj", Str(<<"s">>), Absent, Absent, "strTrue"),
      DepItem("obj", Str(T_primary), Absent, Absent, "strNo"),
      DepItem("obj", Null, Absent, Absent, "absent"), \* "deploymentName": null
      DepItem("scalar", Absent, Absent, Absent, "absent") }

ScalarItems == { ScalarItem(<<"E">>), ScalarItem(<<"G">>) }

FailedResponses ==
    { NetErr,
      Http(500, BodyDict(FldList(<<ObjItem(Str(T_A), Str(T_a))>>), FldAbsent,
                         FldAbsent)),
      Http(200, BodyNotJson),
      Http(200, BodyNonDict),
      Http(200, BodyDict(FldAbsent, FldAbsent, FldNull)) }

ResponsesUpTo(n) ==
    FailedResponses
    \cup { Http(200, BodyDict(FldList(s), FldAbsent, FldAbsent)) :
            s \in SeqsUpTo(ResultItems, n) }
    \cup { Http(200, BodyDict(FldAbsent, FldList(s), FldAbsent)) :
            s \in SeqsUpTo(ResultItems, 1) }
    \cup { Http(200, BodyDict(FldAbsent, FldAbsent, FldList(s))) :
            s \in SeqsUpTo(DeploymentItems, n) }
    \cup { Http(200, BodyDict(FldAttrs(seg, vert), FldAbsent, FldAbsent)) :
            seg \in {FldAbsent, FldNull, FldList(<<ScalarItem(<<"E">>)>>)},
            vert \in {FldAbsent, FldList(<<ScalarItem(<<"G">>)>>)} }
    \cup { Http(200, BodyDict(FldNull, FldList(<<ScalarItem(<<"W">>)>>),
                              FldAbsent)),
           Http(200, BodyDict(FldAbsent, FldAbsent, FldAbsent)) }

Responses == ResponsesUpTo(MaxOptions)

\* the hints a needs_resolution extraction may carry
Hints == { T_primary, T_a, <<"W">>, <<"z">>, <<" ", "B">> }

ProbeNames == {"deployment", "deploymentList", "productName", "outcome",
               "dealId"}

(***************************************************************************)
(* Direct calls of the lookup.py functions, each on one response.          *)
(***************************************************************************)
InitLookup ==
    /\ pc = "start"
    /\ message = <<>>
    /\ question = NoQuestion
    /\ extracted = <<>>
    /\ ordered_names = <<>>
    /\ idx = 0
    /\ parameters = <<>>
    /\ unresolvable = <<>>
    /\ inflight = <<>>
    /\ calls = <<>>
    /\ probe = NoProbe
    /\ reply = NoReply
    /\ _CATALOG = NotLoaded
    /\ log = <<>>

ProbeFrame ==
    UNCHANGED <<message, question, extracted, ordered_names, idx, parameters,
                unresolvable, inflight, calls, reply, _CATALOG,
                log>>

CallSearchCustomers ==
    /\ pc = "start"
    /\ \E resp \in Responses :
        probe' = [NoProbe EXCEPT !.fn = "search_customers", !.resp = resp,
                                 !.got = search_customers(resp)]
    /\ pc' = "probed"
    /\ ProbeFrame

CallGetList ==
    /\ pc = "start"
    /\ \E resp \in Responses :
        probe' = [NoProbe EXCEPT !.fn = "get_list", !.resp = resp,
                                 !.got = get_list(resp)]
    /\ pc' = "probed"
    /\ ProbeFrame

CallAutoSelect ==
    /\ pc = "start"
    /\ \E resp \in Responses, agent \in {"adoption", "renewals"},
          name \in ProbeNames, prefer \in BOOLEAN :
        probe' = [NoProbe EXCEPT
                    !.fn = "auto_select_remote_param", !.resp = resp,
                    !.agent = agent, !.name = name, !.prefer = prefer,
                    !.got = get_list(resp),
                    !.sel = auto_select_remote_param(agent, name, prefer, resp)]
    /\ pc' = "probed"
    /\ ProbeFrame

CallResolveRemote ==
    /\ pc = "start"
    /\ \E resp \in Responses, agent \in {"adoption", "renewals"},
          name \in ProbeNames, text \in {Str(h) : h \in Hints} :
        probe' = [NoProbe EXCEPT
                    !.fn = "resolve_remote_param", !.resp = resp,
                    !.agent = agent, !.name = name, !.text = text,
                    !.got = get_list(resp),
                    !.sel = resolve_remote_param(agent, name, text, resp)]
    /\ pc' = "probed"
    /\ ProbeFrame

NextLookup ==
    \/ CallSearchCustomers
    \/ CallGetList
    \/ CallAutoSelect
    \/ CallResolveRemote

SpecLookup == InitLookup /\ [][NextLookup]_vars

(***************************************************************************)
(* Claims about lookup.py, checked under SpecLookup.                       *)
(***************************************************************************)
\* the call reached get_list and get_list returned a non-empty option list
ProbeHasOptions ==
    /\ probe.name \in DOMAIN EndpointsOf(probe.agent)
    /\ ~probe.got.raised
    /\ probe.got.opts # <<>>

ProbeWantsPrimary ==
    probe.prefer /\ probe.name \in {"deployment", "deploymentList"}

LabelNamesPrimary(o) ==
    o.label.k = "str" /\ Contains(T_primary, Lower(o.label.s))

C9_AmbiguousNotSelected ==
    ( /\ probe.fn = "auto_select_remote_param"
      /\ ProbeHasOptions
      /\ Len(probe.got.opts) > 1
      /\ ~ProbeWantsPrimary ) =>
        (~probe.sel.raised /\ ~probe.sel.found)

\* the call failed: a transport error, a status other than 200, or a body
\* that is not a JSON object
ProbeCallFailed ==
    \/ probe.resp.kind = "neterr"
    \/ probe.resp.status # 200
    \/ probe.resp.body.shape \in {"notjson", "nondict"}

\* C10: get_list and search_customers return an empty sequence and raise no
\* exception whenever the call fails (network or transport error, non-200
\* status, a response body that is not of the expected shape).
C10_FailureIsEmpty ==
    (probe.fn \in {"get_list", "search_customers"} /\ ProbeCallFailed) =>
        (~probe.got.raised /\ probe.got.opts = <<>>)

(***************************************************************************)
(* server.py: the catalog question and the dependency body.                *)
(*                                                                         *)
(* A parameter definition is [name, subtype, multiple, binding,            *)
(* valueField]: binding is api.params in the catalog's order, each entry   *)
(* [api_key, kind, value, fieldName, transform] with kind "value" (a       *)
(* declared constant) or "field" (read from a resolved parameter);         *)
(* valueField is the field the api.transform text names as 'value'.        *)
(***************************************************************************)
PD(name, subtype, multiple, binding, valueField) ==
    [name |-> name, subtype |-> subtype, multiple |-> multiple,
     binding |-> binding, valueField |-> valueField]
NoDef == PD("", "", FALSE, <<>>, "")

BindField(api_key, fieldName, transform) ==
    [api_key |-> api_key, kind |-> "field", value |-> Null,
     fieldName |-> fieldName, transform |-> transform]
BindValue(api_key, value) ==
    [api_key |-> api_key, kind |-> "value", value |-> value,
     fieldName |-> "", transform |-> ""]

_FALLBACK_PARAM_DEPS ==
    [n \in {"deployment", "deploymentList", "featureName", "metrics"}
        |-> <<"customerName", "productName">>] @@
    [n \in {"outcome", "outcomes"}
        |-> <<"customerName", "productName", "deploymentList">>] @@
    [n \in {"marketSegment", "vertical", "subBusinessEntity",
            "subBusinessEntities", "subBusinessServiceCategoryMultiSelect"}
        |-> <<"customerName">>]

_FALLBACK_FIELD_NAME_MAP ==
    [n \in {"outcome", "outcomes"} |-> ("deploymentList" :> "deployment")] @@
    [n \in {"subBusinessEntity", "subBusinessServiceCategoryMultiSelect"}
        |-> ("customerName" :> "customer_hierarchy")] @@
    ("subBusinessEntities" :>
        (("customerName" :> "customer_hierarchy") @@
         ("businessEntities" :> "business_entity"))) @@
    ("metrics" :>
        (("customerName" :> "customerName") @@
         ("productName" :> "productName")))

_get_param_def(q, param_name) ==
    LET defs == q.parameters
        hit == {i \in 1..Len(defs) : defs[i].name = param_name}
    IN  IF hit = {} THEN NoDef
        ELSE defs[CHOOSE i \in hit : \A j \in hit : i <= j]

_uses_summary_as_valueMutantNever(q, param_name) == FALSE

_uses_summary_as_value(q, param_name) ==
    _get_param_def(q, param_name).valueField = "OUTCOME_SUMMARY"

\* the loop over api_params of _build_dependent_body
RECURSIVE BodyFromBinding(_, _, _)
BodyFromBinding(entries, params, body) ==
    IF entries = <<>> THEN body
    ELSE LET e == Head(entries)
             source == e.fieldName
             raw_val ==
                IF source \in DOMAIN params THEN params[source].value
                ELSE IF source = "deploymentList" /\ "deployment" \in DOMAIN params
                THEN params["deployment"].value
                ELSE IF source = "deployment" /\ "deploymentList" \in DOMAIN params
                THEN params["deploymentList"].value
                ELSE Null
             sent ==
                IF e.transform = "to-array" /\ raw_val.k # "list"
                THEN ListOf(raw_val)
                ELSE IF e.api_key = "deploymentList" /\ raw_val.k # "list"
                THEN ListOf(raw_val)
                ELSE raw_val
         IN  IF e.kind = "value"
             THEN BodyFromBinding(Tail(entries), params,
                                  (e.api_key :> e.value) @@ body)
             ELSE IF source = "" \/ raw_val.k = "null"
             THEN BodyFromBinding(Tail(entries), params, body)
             ELSE BodyFromBinding(Tail(entries), params,
                                  (e.api_key :> sent) @@ body)

\* the loop over _FALLBACK_PARAM_DEPS[param_name] of _build_dependent_body
RECURSIVE BodyFromFallback(_, _, _, _)
BodyFromFallback(needed, field_map, params, body) ==
    IF needed = <<>> THEN body
    ELSE LET dep == Head(needed)
             raw_val ==
                IF dep \in DOMAIN params THEN params[dep].value
                ELSE IF dep = "deploymentList" /\ "deployment" \in DOMAIN params
                THEN params["deployment"].value
                ELSE Null
             sent == IF dep = "deploymentList" /\ raw_val.k # "list"
                     THEN ListOf(raw_val) ELSE raw_val
             api_key == IF dep \in DOMAIN field_map THEN field_map[dep] ELSE dep
         IN  IF raw_val.k = "null"
             THEN BodyFromFallback(Tail(needed), field_map, params, body)
             ELSE BodyFromFallback(Tail(needed), field_map, params,
                                   (api_key :> sent) @@ body)

\* the body is a function from the request's field names to their values;
\* the empty function stands for None (get_list sends neither)
_build_dependent_body(q, params, param_name) ==
    LET bound == BodyFromBinding(_get_param_def(q, param_name).binding, params, <<>>)
    IN  IF DOMAIN bound # {} THEN bound
        ELSE IF param_name \notin DOMAIN _FALLBACK_PARAM_DEPS THEN <<>>
        ELSE BodyFromFallback(
                _FALLBACK_PARAM_DEPS[param_name],
                IF param_name \in DOMAIN _FALLBACK_FIELD_NAME_MAP
                THEN _FALLBACK_FIELD_NAME_MAP[param_name] ELSE <<>>,
                params, <<>>)

(***************************************************************************)
(* server.py: the processing order.                                        *)
(***************************************************************************)
_RESOLVE_ORDER ==
    << "customerName", "productName",
       "businessEntity", "businessEntities",
       "subBusinessEntity", "subBusinessEntities",
       "subBusinessServiceCategoryMultiSelect",
       "marketSegment", "vertical",
       "deployment", "deploymentList",
       "outcome", "outcomes",
       "featureName", "metrics" >>

\* the sort key of a name that is not in _RESOLVE_ORDER
UnlistedKey == 99

Listed(n) == \E i \in 1..Len(_RESOLVE_ORDER) : _RESOLVE_ORDER[i] = n

SortKeyMutantUnlistedFirst(n) ==
    IF Listed(n)
    THEN (CHOOSE i \in 1..Len(_RESOLVE_ORDER) : _RESOLVE_ORDER[i] = n)
    ELSE 0

\* the key= of sorted(): _RESOLVE_ORDER.index(n), counted from 0, else 99
SortKey(n) ==
    IF Listed(n)
    THEN (CHOOSE i \in 1..Len(_RESOLVE_ORDER) : _RESOLVE_ORDER[i] = n) - 1
    ELSE UnlistedKey

RECURSIVE InsertMutantUnstable(_, _)
InsertMutantUnstable(x, s) ==
    IF s = <<>> THEN <<x>>
    ELSE IF SortKey(Head(s)) < SortKey(x)
    THEN <<Head(s)>> \o InsertMutantUnstable(x, Tail(s))
    ELSE <<x>> \o s

\* sorted() is stable: a name goes behind every name whose key is not larger
RECURSIVE InsertByKey(_, _)
InsertByKey(x, s) ==
    IF s = <<>> THEN <<x>>
    ELSE IF SortKey(Head(s)) <= SortKey(x)
    THEN <<Head(s)>> \o InsertByKey(x, Tail(s))
    ELSE <<x>> \o s

RECURSIVE SortedByKey(_, _)
SortedByKey(names, acc) ==
    IF names = <<>> THEN acc
    ELSE SortedByKey(Tail(names), InsertByKey(Head(names), acc))

(***************************************************************************)
(* server.py: _resolve_params_with_lookups.                                *)
(*                                                                         *)
(* An extraction result is None or a dict: [isNone, auto, needs, label,    *)
(* value], auto and needs being the tags _auto_resolve and                 *)
(* _needs_resolution, label and value "absent" when the dict has no such   *)
(* key.                                                                    *)
(***************************************************************************)
ExNone == [isNone |-> TRUE, auto |-> FALSE, needs |-> FALSE,
           label |-> Absent, value |-> Absent]
ExPlain(label, value) == [isNone |-> FALSE, auto |-> FALSE, needs |-> FALSE,
                          label |-> label, value |-> value]
ExNeeds(t) == [isNone |-> FALSE, auto |-> FALSE, needs |-> TRUE,
               label |-> Str(t), value |-> Str(t)]
ExAuto == [isNone |-> FALSE, auto |-> TRUE, needs |-> FALSE,
           label |-> Absent, value |-> Absent]

\* extracted[name]
ValOf(ex, name) ==
    ex[CHOOSE i \in 1..Len(ex) : ex[i].name = name].val

NamesOf(ex) == [i \in 1..Len(ex) |-> ex[i].name]

\* what one pass of the loop body leaves: the resolved map, the unresolved
\* list, and whether an exception left the function
Outcome(params, unres, raised) ==
    [parameters |-> params, unresolvable |-> unres, raised |-> raised]

MarkUnresolvedMutantSkips(name) ==
    Outcome(parameters, unresolvable, FALSE)

\* unresolvable.append(name); continue
MarkUnresolved(name) ==
    Outcome(parameters, Append(unresolvable, name), FALSE)

ExceptHandlerMutantReraises(name) ==
    Outcome(parameters, Append(unresolvable, name), TRUE)

ExceptHandlerMutantDropsResolved(name) ==
    Outcome(<<>>, Append(unresolvable, name), FALSE)

\* except Exception: unresolvable.append(name)
ExceptHandler(name) ==
    Outcome(parameters, Append(unresolvable, name), FALSE)

FinalizeMutantAlwaysWraps(name, val) ==
    IF val.label.k = "absent" \/ val.value.k = "absent"
    THEN ExceptHandler(name)
    ELSE LET param_def == _get_param_def(question, name)
             value == IF name \in {"outcome", "outcomes"}
                         /\ _uses_summary_as_value(question, name)
                      THEN val.label ELSE val.value
             final_value == IF param_def.multiple
                            THEN ListOf(value) ELSE value
             clean == [label |-> val.label, value |-> final_value,
                       hidden |-> FALSE]
         IN  Outcome((name :> clean) @@ parameters, unresolvable, FALSE)

FinalizeMutantKeepsMarker(name, val) ==
    IF val.label.k = "absent" \/ val.value.k = "absent"
    THEN ExceptHandler(name)
    ELSE LET param_def == _get_param_def(question, name)
             value == IF name \in {"outcome", "outcomes"}
                         /\ _uses_summary_as_value(question, name)
                      THEN val.label ELSE val.value
             final_value == IF param_def.multiple /\ value.k # "list"
                            THEN ListOf(value) ELSE value
             clean == [label |-> val.label, value |-> final_value,
                       hidden |-> FALSE, _is_primary |-> FALSE]
         IN  Outcome((name :> clean) @@ parameters, unresolvable, FALSE)

FinalizeMutantLabelIsValue(name, val) ==
    IF val.label.k = "absent" \/ val.value.k = "absent"
    THEN ExceptHandler(name)
    ELSE LET param_def == _get_param_def(question, name)
             value == IF name \in {"outcome", "outcomes"}
                         /\ _uses_summary_as_value(question, name)
                      THEN val.label ELSE val.value
             final_value == IF param_def.multiple /\ value.k # "list"
                            THEN ListOf(value) ELSE value
             clean == [label |-> val.value, value |-> final_value,
                       hidden |-> FALSE]
         IN  Outcome((name :> clean) @@ parameters, unresolvable, FALSE)

\* from the outcome override to parameters[name] = clean
Finalize(name, val) ==
    IF val.label.k = "absent" \/ val.value.k = "absent"
    THEN ExceptHandler(name)                     \* val["label"], val["value"]
    ELSE LET param_def == _get_param_def(question, name)
             value == IF name \in {"outcome", "outcomes"}
                         /\ _uses_summary_as_value(question, name)
                      THEN val.label ELSE val.value
             final_value == IF param_def.multiple /\ value.k # "list"
                            THEN ListOf(value) ELSE value
             clean == [label |-> val.label, value |-> final_value,
                       hidden |-> FALSE]
         IN  Outcome((name :> clean) @@ parameters, unresolvable, FALSE)

FirstCustomerMutantTakesLast(results) ==
    [label |-> results[Len(results)].label,
     value |-> results[Len(results)].value]

\* val = {"label": results[0]["label"], "value": results[0]["value"]}
FirstCustomer(results) ==
    [label |-> results[1].label, value |-> results[1].value]

\* a lookup call: who it is for, the lookup.py function that sends it, the
\* branch that made it, the text it matches, the body it sends, and the names
\* in the resolved map when it was sent
Call(name, fn, via, text, body, prefer) ==
    [name |-> name, fn |-> fn, via |-> via, text |-> text, body |-> body,
     prefer |-> prefer, resolved |-> DOMAIN parameters]

HasEndpoint(name) == name \in DOMAIN EndpointsOf(question.agent)

\* get_list sends extra_body with a POST only
SentBody(name, dep_body) ==
    IF EndpointsOf(question.agent)[name] = "POST" THEN dep_body ELSE <<>>

Advance(out) ==
    /\ parameters' = out.parameters
    /\ unresolvable' = out.unresolvable
    /\ IF out.raised
       THEN pc' = "escaped" /\ idx' = idx
       ELSE pc' = "loop" /\ idx' = idx + 1

SendMutantDoesNotAwait(call) ==
    /\ inflight' = Append(inflight, call)
    /\ pc' = "loop"
    /\ idx' = idx + 1
    /\ UNCHANGED <<parameters, unresolvable>>

\* await of a lookup.py coroutine: the loop body stops until it returns
Send(call) ==
    /\ inflight' = Append(inflight, call)
    /\ pc' = "await"
    /\ UNCHANGED <<parameters, unresolvable, idx>>

\* the loop body up to its first lookup call, or to its end when it makes none
Iterate ==
    /\ pc = "loop"
    /\ idx <= Len(ordered_names)
    /\ LET name == ordered_names[idx]
           val == ValOf(extracted, name)
           dep_body == _build_dependent_body(question, parameters, name)
       IN  IF val.isNone
           THEN Advance(MarkUnresolved(name)) /\ UNCHANGED inflight
           ELSE IF name = "customerName" /\ val.needs
           THEN IF val.label.k = "absent"
                THEN Advance(ExceptHandler(name)) /\ UNCHANGED inflight
                ELSE Send(Call(name, "search_customers", "search", val.label,
                               <<>>, FALSE))
           ELSE IF val.auto
           THEN IF HasEndpoint(name)
                THEN Send(Call(name, "get_list", "auto", Null,
                               SentBody(name, dep_body),
                               name \in {"deployment", "deploymentList"}))
                ELSE Advance(MarkUnresolved(name)) /\ UNCHANGED inflight
           ELSE IF val.needs
           THEN IF val.label.k = "absent"
                THEN Advance(ExceptHandler(name)) /\ UNCHANGED inflight
                ELSE IF HasEndpoint(name)
                THEN Send(Call(name, "get_list", "resolve", val.label,
                               SentBody(name, dep_body), FALSE))
                ELSE Advance(MarkUnresolved(name)) /\ UNCHANGED inflight
           ELSE IF _get_param_def(question, name).subtype = "remote"
           THEN IF HasEndpoint(name)
                THEN Send(Call(name, "get_list", "plain",
                               Or(Get(val.label), GetOr(val.value, Str(<<>>))),
                               SentBody(name, dep_body), FALSE))
                ELSE Advance(MarkUnresolved(name)) /\ UNCHANGED inflight
           ELSE Advance(Finalize(name, val)) /\ UNCHANGED inflight
    /\ UNCHANGED <<message, question, extracted, ordered_names, calls, probe,
                   reply, _CATALOG, log>>

\* the responses a lookup of the resolver may get
ResolverResponses ==
    { NetErr,
      Http(200, BodyNonDict),
      Http(200, BodyDict(FldList(<<>>), FldAbsent, FldAbsent)),
      Http(200, BodyDict(FldList(<<ObjItem(Str(T_A), Str(T_a)),
                                   ObjItem(Str(T_B), Str(T_b))>>),
                         FldAbsent, FldAbsent)),
      Http(200, BodyDict(FldList(<<ObjItem(Str(T_Acme), Null)>>),
                         FldAbsent, FldAbsent)),
      Http(200, BodyDict(FldAbsent, FldAbsent,
            FldList(<<DepItem("obj", Str(<<"w">>), Absent, Absent, "false"),
                      DepItem("obj", Str(<<"n">>), Absent, Absent, "true")>>))) }

FallsBackMutantNever(via, name) == FALSE

\* if not resolved and name in ("outcome", "outcomes"), in the branch of a
\* needs_resolution hint
FallsBack(via, name) == via = "resolve" /\ name \in {"outcome", "outcomes"}

\* the rest of the loop body, from the return of the lookup call in flight
RespondWith(responses) ==
    /\ pc = "await"
    /\ inflight # <<>>
    /\ \E resp \in responses :
        LET c == Head(inflight)
            name == c.name
            agent == question.agent
            got == IF c.fn = "search_customers" THEN search_customers(resp)
                   ELSE get_list(resp)
            sel == IF c.via \in {"auto", "fallback"}
                   THEN auto_select_remote_param(agent, name, c.prefer, resp)
                   ELSE resolve_remote_param(agent, name, c.text, resp)
        IN  /\ calls' = Append(calls, [call |-> c, got |-> got])
            /\ IF c.via = "search"
               THEN /\ inflight' = Tail(inflight)
                    /\ IF got.raised THEN Advance(ExceptHandler(name))
                       ELSE IF got.opts # <<>>
                       THEN Advance(Finalize(name, FirstCustomer(got.opts)))
                       ELSE Advance(MarkUnresolved(name))
               ELSE IF sel.raised
               THEN inflight' = Tail(inflight) /\ Advance(ExceptHandler(name))
               ELSE IF sel.found
               THEN /\ inflight' = Tail(inflight)
                    /\ Advance(Finalize(name,
                                [label |-> sel.label, value |-> sel.value]))
               ELSE IF FallsBack(c.via, name)
               THEN /\ inflight' = Append(Tail(inflight),
                                          [c EXCEPT !.via = "fallback",
                                                    !.text = Null])
                    /\ UNCHANGED <<pc, idx, parameters, unresolvable>>
               ELSE inflight' = Tail(inflight) /\ Advance(MarkUnresolved(name))
    /\ UNCHANGED <<message, question, extracted, ordered_names, probe, reply,
                   _CATALOG, log>>

Respond == RespondWith(ResolverResponses)

\* return parameters, unresolvable
Return ==
    /\ pc = "loop"
    /\ idx > Len(ordered_names)
    /\ pc' = "done"
    /\ UNCHANGED <<message, question, extracted, ordered_names, idx,
                   parameters, unresolvable, inflight, calls, probe, reply,
                   _CATALOG, log>>

(***************************************************************************)
(* The questions and extraction results the model draws from.              *)
(***************************************************************************)
CatalogParams ==
    { PD("customerName", "remote", FALSE, <<>>, ""),
      PD("customerName", "remote", TRUE, <<>>, ""),
      PD("deployment", "remote", FALSE, <<>>, ""),
      PD("outcomes", "remote", TRUE, <<>>, "OUTCOME_SUMMARY"),
      PD("subBusinessEntities", "remote", FALSE,
         <<BindField("customer_hierarchy", "customerName", ""),
           BindValue("input_type", Str(<<"P">>))>>, ""),
      PD("metrics", "remote", TRUE,
         <<BindField("pmg", "pmg", "to-array")>>, ""),
      PD("pmg", "remote", FALSE, <<>>, ""),
      PD("dealId", "", FALSE, <<>>, "") }

Agents == {"adoption", "renewals"}

DistinctNames(defs) ==
    \A i, j \in 1..Len(defs) : i # j => defs[i].name # defs[j].name

Questions ==
    { [agent |-> a, parameters |-> defs] :
        a \in Agents,
        defs \in {d \in SeqsUpTo(CatalogParams, MaxParams) :
                    d # <<>> /\ DistinctNames(d)} }

ExVals ==
    { ExNone, ExPlain(Str(T_A), Str(T_a)), ExNeeds(T_a), ExAuto }

\* every dict with the question's parameter names as keys, in their order
Extractions(q) ==
    { [i \in 1..Len(q.parameters) |->
            [name |-> q.parameters[i].name, val |-> f[i]]] :
        f \in [1..Len(q.parameters) -> ExVals] }

\* a call of _resolve_params_with_lookups, up to the for loop
CallResolver ==
    /\ pc = "start"
    /\ \E q \in Questions :
        \E ex \in Extractions(q) :
            /\ question' = q
            /\ extracted' = ex
            /\ ordered_names' = SortedByKey(NamesOf(ex), <<>>)
    /\ parameters' = <<>>
    /\ unresolvable' = <<>>
    /\ idx' = 1
    /\ pc' = "loop"
    /\ UNCHANGED <<message, inflight, calls, probe, reply,
                   _CATALOG, log>>

(***************************************************************************)
(* routing.py: parameter extraction.  The regular expressions are computed *)
(* on the message's characters: \b is a change between a word character    *)
(* and another (or none), and a search returns the leftmost match.         *)
(***************************************************************************)
UpperOf(c) ==
    IF c \in LowerLetters
    THEN CHOOSE u \in UpperLetters : UpperToLower[u] = c
    ELSE c
\* str.upper()
Upper(t) == [i \in 1..Len(t) |-> UpperOf(t[i])]

WordAt(t, i) == i \in 1..Len(t) /\ t[i] \in WordChars
\* \b in front of t[i]
BoundaryAt(t, i) == WordAt(t, i - 1) # WordAt(t, i)
\* t holds w from position i on
HasAt(t, i, w) ==
    i >= 1 /\ i + Len(w) - 1 <= Len(t) /\ SubSeq(t, i, i + Len(w) - 1) = w
\* the least element of a non-empty set of positions
Least(S) == CHOOSE i \in S : \A j \in S : i <= j
\* the end of the longest run of characters of C that starts at i (i - 1: none)
RECURSIVE RunEnd(_, _, _)
RunEnd(t, i, C) ==
    IF i <= Len(t) /\ t[i] \in C THEN RunEnd(t, i + 1, C) ELSE i - 1
\* the end of the longest run of characters outside C that starts at i
RECURSIVE RunEndNot(_, _, _)
RunEndNot(t, i, C) ==
    IF i <= Len(t) /\ t[i] \notin C THEN RunEndNot(t, i + 1, C) ELSE i - 1

T_for == <<"f", "o", "r">>
T_of == <<"o", "f">>
T_deployment == <<"d", "e", "p", "l", "o", "y", "m", "e", "n", "t">>
T_feature == <<"f", "e", "a", "t", "u", "r", "e">>

\* the words re.sub strips from the end of a customer name
SuffixWords ==
    { <<"C", "A", "V", " ", "B", "U">>,
      <<"p", "r", "o", "d", "u", "c", "t">>,
      <<"d", "e", "a", "l">>,
      <<"s", "e", "r", "v", "i", "c", "e">> }

\* \b(\d{5,6})\b matches n digits at i
CavIdAt(t, i, n) ==
    /\ BoundaryAt(t, i)
    /\ i + n - 1 <= Len(t)
    /\ \A k \in i..(i + n - 1) : t[k] \in Digits
    /\ BoundaryAt(t, i + n)

CavIdStarts(t) == {i \in 1..Len(t) : \E n \in {5, 6} : CavIdAt(t, i, n)}

\* \b(?:for|of)\s+([A-Za-z][^\n,?]+) matches at i; the group is t[from..to]
ForMatch(t, i) ==
    LET kwEnd == IF HasAt(t, i, T_for) THEN i + Len(T_for) - 1
                 ELSE IF HasAt(t, i, T_of) THEN i + Len(T_of) - 1
                 ELSE 0
        gapEnd == RunEnd(t, kwEnd + 1, {" "})
        from == gapEnd + 1
        to == RunEndNot(t, from, {",", "?"})
    IN  [ok |-> /\ BoundaryAt(t, i)
                /\ kwEnd # 0
                /\ gapEnd > kwEnd
                /\ from <= Len(t)
                /\ t[from] \in Letters
                /\ to > from,
         from |-> from, to |-> to]

ForStarts(t) == {i \in 1..Len(t) : ForMatch(t, i).ok}

\* re.sub(r"\s+(CAV BU|product|deal|service)\s*$", "", name, IGNORECASE)
StripSuffixWord(name) ==
    LET hits == {w \in SuffixWords :
                    /\ Len(name) > Len(w)
                    /\ Lower(SubSeq(name, Len(name) - Len(w) + 1, Len(name)))
                        = Lower(w)
                    /\ name[Len(name) - Len(w)] = " "}
    IN  IF hits = {} THEN name
        ELSE LET w == CHOOSE x \in hits : TRUE
             IN  Strip(SubSeq(name, 1, Len(name) - Len(w)))

_extract_customer(msg) ==
    IF CavIdStarts(msg) # {}
    THEN LET i == Least(CavIdStarts(msg))
             n == IF CavIdAt(msg, i, 6) THEN 6 ELSE 5
         IN  ExNeeds(SubSeq(msg, i, i + n - 1))
    ELSE IF ForStarts(msg) # {}
    THEN LET m == ForMatch(msg, Least(ForStarts(msg)))
         IN  ExNeeds(Strip(StripSuffixWord(Strip(SubSeq(msg, m.from, m.to)))))
    ELSE ExNone

\* \bD-\d+\b, ignoring case, matches at i and ends at the returned position
DealIdEnd(t, i) ==
    LET to == RunEnd(t, i + 2, Digits) IN
    IF /\ BoundaryAt(t, i)
       /\ HasAt(Lower(t), i, <<"d", "-">>)
       /\ to >= i + 2
       /\ BoundaryAt(t, to + 1)
    THEN to ELSE 0

ExtractDealId(msg) ==
    LET starts == {i \in 1..Len(msg) : DealIdEnd(msg, i) # 0} IN
    IF starts = {} THEN ExNone
    ELSE LET i == Least(starts)
             val == Upper(SubSeq(msg, i, DealIdEnd(msg, i)))
         IN  ExPlain(Str(val), Str(val))

_OUTCOME_KEYWORDS ==
    << 
       <<"s", "e", "c", "u", "r", "e", " ", "a", "c", "c", "e", "s", "s">>,
       <<"s", "e", "c", "u", "r", "e", " ", "n", "e", "t", "w", "o", "r", "k">>,
       <<"s", "e", "c", "u", "r", "e", " ", "e", "n", "d", "p", "o", "i", "n", "t">>,
       <<"n", "e", "t", "w", "o", "r", "k", " ", "a", "u", "t", "o", "m", "a", "t", "i", "o", "n">>,
       <<"n", "e", "t", "w", "o", "r", "k", " ", "v", "i", "s", "i", "b", "i", "l", "i", "t", "y">>,
       <<"c", "o", "l", "l", "a", "b", "o", "r", "a", "t", "i", "o", "n">>,
       <<"d", "a", "t", "a", " ", "c", "e", "n", "t", "e", "r">>,
       <<"c", "l", "o", "u", "d", " ", "s", "e", "c", "u", "r", "i", "t", "y">>,
       <<"t", "h", "r", "e", "a", "t", " ", "d", "e", "f", "e", "n", "s", "e">> >>

\* \bdeployment\s+(\S+), ignoring case, matches at i; the group is t[from..to]
DeploymentMatch(t, i) ==
    LET kwEnd == i + Len(T_deployment) - 1
        gapEnd == RunEnd(t, kwEnd + 1, {" "})
        from == gapEnd + 1
        to == RunEndNot(t, from, {" "})
    IN  [ok |-> /\ BoundaryAt(t, i)
                /\ HasAt(Lower(t), i, T_deployment)
                /\ gapEnd > kwEnd
                /\ to >= from,
         from |-> from, to |-> to]

\* \bfeature\s+([A-Za-z][^\n,?]*), ignoring case
FeatureMatch(t, i) ==
    LET kwEnd == i + Len(T_feature) - 1
        gapEnd == RunEnd(t, kwEnd + 1, {" "})
        from == gapEnd + 1
        to == RunEndNot(t, from, {",", "?"})
    IN  [ok |-> /\ BoundaryAt(t, i)
                /\ HasAt(Lower(t), i, T_feature)
                /\ gapEnd > kwEnd
                /\ from <= Len(t)
                /\ t[from] \in Letters,
         from |-> from, to |-> to]

\* the hint as a value: None when there is none
_extract_remote_hint(param_name, msg) ==
    LET msg_lower == Lower(msg) IN
    IF param_name \in {"deployment", "deploymentList"}
    THEN IF Contains(T_primary, msg_lower) THEN Str(T_primary)
         ELSE LET starts == {i \in 1..Len(msg) : DeploymentMatch(msg, i).ok} IN
              IF starts = {} THEN Null
              ELSE LET m == DeploymentMatch(msg, Least(starts))
                   IN  Str(Strip(SubSeq(msg, m.from, m.to)))
    ELSE IF param_name \in {"outcome", "outcomes"}
    THEN LET hits == {i \in 1..Len(_OUTCOME_KEYWORDS) :
                        Contains(_OUTCOME_KEYWORDS[i], msg_lower)} IN
         IF hits = {} THEN Null ELSE Str(_OUTCOME_KEYWORDS[Least(hits)])
    ELSE IF param_name = "featureName"
    THEN LET starts == {i \in 1..Len(msg) : FeatureMatch(msg, i).ok} IN
         IF starts = {} THEN Null
         ELSE LET m == FeatureMatch(msg, Least(starts))
              IN  Str(Strip(SubSeq(msg, m.from, m.to)))
    ELSE Null

(***************************************************************************)
(* lookup.py: the product table and the static options, in the order of    *)
(* their dicts.                                                            *)
(***************************************************************************)
Product(value, label) == [value |-> value, label |-> label]

PRODUCTS ==
    <<
       Product(<<"C", "O", "L", "L", "A", "B">>,
               <<"C", "o", "l", "l", "a", "b", "o", "r", "a", "t", "i",
                 "o", "n">>),
       Product(<<"C", "R", "O", "S", "S", "W", "O", "R", "K", "_", "C",
                 "L", "O", "U", "D">>,
               <<"C", "r", "o", "s", "s", "w", "o", "r", "k", " ", "C",
                 "l", "o", "u", "d">>),
       Product(<<"C", "R", "O", "S", "S", "W", "O", "R", "K", "_", "N",
                 "E", "T", "W", "O", "R", "K", "_", "C", "O", "N", "T",
                 "R", "O", "L", "L", "E", "R">>,
               <<"C", "r", "o", "s", "s", "w", "o", "r", "k", " ", "N",
                 "e", "t", "w", "o", "r", "k", " ", "C", "o", "n", "t",
                 "r", "o", "l", "l", "e", "r">>),
       Product(<<"D", "E", "F", "E", "N", "S", "E", "_", "O", "R", "C",
                 "H", "E", "S", "T", "R", "A", "T", "O", "R">>,
               <<"D", "e", "f", "e", "n", "s", "e", " ", "O", "r", "c",
                 "h", "e", "s", "t", "r", "a", "t", "o", "r">>),
       Product(<<"D", "U", "O">>,
               <<"D", "u", "o">>),
       Product(<<"E", "N", "T", "E", "R", "P", "R", "I", "S", "E", "_",
                 "S", "W", "I", "T", "C", "H", "I", "N", "G">>,
               <<"E", "n", "t", "e", "r", "p", "r", "i", "s", "e", " ",
                 "S", "w", "i", "t", "c", "h", "i", "n", "g">>),
       Product(<<"E", "P", "P">>,
               <<"E", "n", "d", "p", "o", "i", "n", "t", " ", "P", "r",
                 "o", "t", "e", "c", "t", "i", "o", "n", " ", "P", "l",
                 "a", "t", "f", "o", "r", "m", " ", "(", "E", "P", "P",
                 ")">>),
       Product(<<"E", "V", "O", "L", "V", "E", "D", "_", "P", "R", "O",
                 "G", "R", "A", "M", "M", "A", "B", "L", "E", "_", "N",
                 "E", "T", "W", "O", "R", "K", "_", "M", "A", "N", "A",
                 "G", "E", "R">>,
               <<"E", "v", "o", "l", "v", "e", "d", " ", "P", "r", "o",
                 "g", "r", "a", "m", "m", "a", "b", "l", "e", " ", "N",
                 "e", "t", "w", "o", "r", "k", " ", "M", "a", "n", "a",
                 "g", "e", "r">>),
       Product(<<"I", "N", "T", "E", "R", "S", "I", "G", "H", "T">>,
               <<"I", "n", "t", "e", "r", "s", "i", "g", "h", "t">>),
       Product(<<"I", "O", "S", "_", "X", "R", "_", "F", "L", "E", "X",
                 "I", "B", "L", "E", "_", "C", "O", "N", "S", "U", "M",
                 "P", "T", "I", "O", "N", "_", "M", "O", "D", "E", "L">>,
               <<"I", "O", "S", " ", "X", "R", " ", "F", "l", "e", "x",
                 "i", "b", "l", "e", " ", "C", "o", "n", "s", "u", "m",
                 "p", "t", "i", "o", "n", " ", "M", "o", "d", "e", "l">>),
       Product(<<"I", "S", "E">>,
               <<"I", "d", "e", "n", "t", "i", "t", "y", " ", "S", "e",
                 "r", "v", "i", "c", "e", "s", " ", "E", "n", "g", "i",
                 "n", "e", " ", "(", "I", "S", "E", ")">>),
       Product(<<"N", "E", "T", "W", "O", "R", "K", "_", "S", "E", "R",
                 "V", "I", "C", "E", "_", "O", "R", "C", "H", "E", "S",
                 "T", "R", "A", "T", "O", "R">>,
               <<"N", "e", "t", "w", "o", "r", "k", " ", "S", "e", "r",
                 "v", "i", "c", "e", " ", "O", "r", "c", "h", "e", "s",
                 "t", "r", "a", "t", "o", "r">>),
       Product(<<"N", "X", "3", "K">>,
               <<"N", "e", "x", "u", "s", " ", "3", "k">>),
       Product(<<"N", "X", "9", "K">>,
               <<"N", "e", "x", "u", "s", " ", "9", "k">>),
       Product(<<"S", "A", "N">>,
               <<"S", "t", "o", "r", "a", "g", "e", " ", "A", "r", "e",
                 "a", " ", "N", "e", "t", "w", "o", "r", "k", " ", "(",
                 "S", "A", "N", ")">>),
       Product(<<"S", "D", "-", "W", "A", "N">>,
               <<"S", "o", "f", "t", "w", "a", "r", "e", "-", "D", "e",
                 "f", "i", "n", "e", "d", " ", "W", "i", "d", "e", " ",
                 "A", "r", "e", "a", " ", "N", "e", "t", "w", "o", "r",
                 "k", " ", "(", "S", "D", "W", "A", "N", ")">>),
       Product(<<"S", "E", "C", "U", "R", "E", "_", "C", "L", "I", "E",
                 "N", "T">>,
               <<"S", "e", "c", "u", "r", "e", " ", "C", "l", "i", "e",
                 "n", "t">>),
       Product(<<"S", "E", "C", "U", "R", "E", "_", "E", "M", "A", "I",
                 "L">>,
               <<"S", "e", "c", "u", "r", "e", " ", "E", "m", "a", "i",
                 "l">>),
       Product(<<"S", "E", "C", "U", "R", "E", "_", "F", "I", "R", "E",
                 "W", "A", "L", "L">>,
               <<"S", "e", "c", "u", "r", "e", " ", "F", "i", "r", "e",
                 "w", "a", "l", "l">>),
       Product(<<"S", "E", "C", "U", "R", "E", "_", "M", "A", "L", "W",
                 "A", "R", "E", "_", "A", "N", "A", "L", "Y", "T", "I",
                 "C", "S">>,
               <<"S", "e", "c", "u", "r", "e", " ", "M", "a", "l", "w",
                 "a", "r", "e", " ", "A", "n", "a", "l", "y", "t", "i",
                 "c", "s">>),
       Product(<<"S", "E", "C", "U", "R", "E", "_", "W", "E", "B", "_",
                 "A", "P", "P", "L", "I", "A", "N", "C", "E">>,
               <<"S", "e", "c", "u", "r", "e", " ", "W", "e", "b", " ",
                 "A", "p", "p", "l", "i", "a", "n", "c", "e">>),
       Product(<<"U", "M", "B", "R", "E", "L", "L", "A">>,
               <<"U", "m", "b", "r", "e", "l", "l", "a">>),
       Product(<<"V", "U", "L", "N", "E", "R", "A", "B", "I", "L", "I",
                 "T", "Y", "_", "M", "A", "N", "A", "G", "E", "M", "E",
                 "N", "T">>,
               <<"V", "u", "l", "n", "e", "r", "a", "b", "i", "l", "i",
                 "t", "y", " ", "M", "a", "n", "a", "g", "e", "m", "e",
                 "n", "t">>),
       Product(<<"W", "I", "R", "E", "L", "E", "S", "S">>,
               <<"W", "i", "r", "e", "l", "e", "s", "s">>) >>

StaticOption(label, value) == [label |-> label, value |-> value]

STATIC_OPTIONS ==
    ("service" :>
      <<
         StaticOption(<<"A", "d", "v", "a", "n", "c", "e", "d", " ", "S",
                        "e", "r", "v", "i", "c", "e", "s">>,
                      <<"a", "d", "v", "a", "n", "c", "e", "d", " ", "s",
                        "e", "r", "v", "i", "c", "e", "s">>),
         StaticOption(<<"T", "e", "c", "h", "n", "i", "c", "a", "l", " ",
                        "S", "e", "r", "v", "i", "c", "e", "s">>,
                      <<"t", "e", "c", "h", "n", "i", "c", "a", "l", " ",
                        "s", "e", "r", "v", "i", "c", "e", "s">>) >>)
    @@
    ("tacSentimentTimePeriod" :>
      <<
         StaticOption(<<"C", "u", "r", "r", "e", "n", "t", " ", "q", "u",
                        "a", "r", "t", "e", "r">>,
                      <<"c", "u", "r", "r", "e", "n", "t", " ", "q", "u",
                        "a", "r", "t", "e", "r">>),
         StaticOption(<<"L", "a", "s", "t", " ", "q", "u", "a", "r", "t",
                        "e", "r">>,
                      <<"l", "a", "s", "t", " ", "q", "u", "a", "r", "t",
                        "e", "r">>),
         StaticOption(<<"P", "r", "e", "v", "i", "o", "u", "s", " ", "2",
                        " ", "q", "u", "a", "r", "t", "e", "r", "s">>,
                      <<"l", "a", "s", "t", " ", "2", " ", "q", "u", "a",
                        "r", "t", "e", "r", "s">>) >>)
    @@
    ("timeframe" :>
      <<
         StaticOption(<<"C", "u", "r", "r", "e", "n", "t", " ", "q", "u",
                        "a", "r", "t", "e", "r">>,
                      <<"c", "u", "r", "r", "e", "n", "t", " ", "q", "u",
                        "a", "r", "t", "e", "r">>),
         StaticOption(<<"L", "a", "s", "t", " ", "q", "u", "a", "r", "t",
                        "e", "r">>,
                      <<"l", "a", "s", "t", " ", "q", "u", "a", "r", "t",
                        "e", "r">>),
         StaticOption(<<"L", "a", "s", "t", " ", "3", " ", "q", "u", "a",
                        "r", "t", "e", "r", "s">>,
                      <<"l", "a", "s", "t", " ", "3", " ", "q", "u", "a",
                        "r", "t", "e", "r", "s">>),
         StaticOption(<<"1", " ", "y", "e", "a", "r">>,
                      <<"1", " ", "y", "e", "a", "r">>) >>)
    @@
    ("subscriptionTimeframe" :>
      <<
         StaticOption(<<"0", "-", "9", "0", " ", "d", "a", "y", "s">>,
                      <<"0", "-", "9", "0", " ", "d", "a", "y", "s">>),
         StaticOption(<<"9", "1", "-", "1", "8", "0", " ", "d", "a", "y",
                        "s">>,
                      <<"9", "1", "-", "1", "8", "0", " ", "d", "a", "y",
                        "s">>),
         StaticOption(<<"1", "8", "1", "-", "3", "6", "0", " ", "d", "a",
                        "y", "s">>,
                      <<"1", "8", "1", "-", "3", "6", "0", " ", "d", "a",
                        "y", "s">>) >>)
    @@
    ("comparison" :>
      <<
         StaticOption(<<"R", "e", "g", "i", "o", "n">>,
                      <<"r", "e", "g", "i", "o", "n">>),
         StaticOption(<<"M", "a", "r", "k", "e", "t", " ", "S", "e", "g",
                        "m", "e", "n", "t">>,
                      <<"m", "a", "r", "k", "e", "t", " ", "s", "e", "g",
                        "m", "e", "n", "t">>),
         StaticOption(<<"I", "n", "d", "u", "s", "t", "r", "y", " ", "V",
                        "e", "r", "t", "i", "c", "a", "l">>,
                      <<"i", "n", "d", "u", "s", "t", "r", "y", " ", "v",
                        "e", "r", "t", "i", "c", "a", "l">>) >>)
    @@
    ("region" :>
      <<
         StaticOption(<<"A", "m", "e", "r", "i", "c", "a", "s">>,
                      <<"A", "m", "e", "r", "i", "c", "a", "s">>),
         StaticOption(<<"E", "M", "E", "A", "R">>,
                      <<"E", "M", "E", "A", "R">>),
         StaticOption(<<"A", "P", "J", "C">>,
                      <<"A", "P", "J", "C">>) >>)
    @@
    ("forecastStatuses" :>
      <<
         StaticOption(<<"C", "o", "m", "m", "i", "t">>,
                      <<"C", "o", "m", "m", "i", "t">>),
         StaticOption(<<"U", "p", "s", "i", "d", "e">>,
                      <<"U", "p", "s", "i", "d", "e">>),
         StaticOption(<<"M", "o", "s", "t", " ", "L", "i", "k", "e", "l",
                        "y">>,
                      <<"M", "o", "s", "t", " ", "L", "i", "k", "e", "l",
                        "y">>) >>)
    @@
    ("metricType" :>
      <<
         StaticOption(<<"F", "e", "a", "t", "u", "r", "e", " ", "a", "d",
                        "o", "p", "t", "i", "o", "n", " ", "m", "e", "t",
                        "r", "i", "c", "s">>,
                      <<"A", "d", "o", "p", "t", "i", "o", "n", "M", "e",
                        "t", "r", "i", "c", "s">>),
         StaticOption(<<"U", "s", "a", "g", "e", "/", "s", "c", "a", "l",
                        "e", " ", "m", "e", "t", "r", "i", "c", "s">>,
                      <<"U", "s", "a", "g", "e", "M", "e", "t", "r", "i",
                        "c", "s">>) >>)

\* the short names, in the order of the dict
_SHORT_NAMES ==
    <<
       [short |-> <<"d", "u", "o">>,
        api_value |-> <<"D", "U", "O">>],
       [short |-> <<"u", "m", "b", "r", "e", "l", "l", "a">>,
        api_value |-> <<"U", "M", "B", "R", "E", "L", "L", "A">>],
       [short |-> <<"i", "s", "e">>,
        api_value |-> <<"I", "S", "E">>],
       [short |-> <<"i", "n", "t", "e", "r", "s", "i", "g", "h", "t">>,
        api_value |-> <<"I", "N", "T", "E", "R", "S", "I", "G", "H", "T">>],
       [short |-> <<"w", "i", "r", "e", "l", "e", "s", "s">>,
        api_value |-> <<"W", "I", "R", "E", "L", "E", "S", "S">>],
       [short |-> <<"c", "o", "l", "l", "a", "b">>,
        api_value |-> <<"C", "O", "L", "L", "A", "B">>],
       [short |-> <<"s", "d", "-", "w", "a", "n">>,
        api_value |-> <<"S", "D", "-", "W", "A", "N">>],
       [short |-> <<"s", "d", "w", "a", "n">>,
        api_value |-> <<"S", "D", "-", "W", "A", "N">>],
       [short |-> <<"f", "i", "r", "e", "w", "a", "l", "l">>,
        api_value |-> <<"S", "E", "C", "U", "R", "E", "_", "F", "I", "R",
                       "E", "W", "A", "L", "L">>],
       [short |-> <<"e", "p", "p">>,
        api_value |-> <<"E", "P", "P">>],
       [short |-> <<"n", "e", "x", "u", "s", " ", "9", "k">>,
        api_value |-> <<"N", "X", "9", "K">>],
       [short |-> <<"n", "e", "x", "u", "s", " ", "3", "k">>,
        api_value |-> <<"N", "X", "3", "K">>],
       [short |-> <<"s", "a", "n">>,
        api_value |-> <<"S", "A", "N">>] >>

(***************************************************************************)
(* routing.py: the identifiers, the product and the static options.        *)
(***************************************************************************)
\* \b<class>{least,}\b matches at i and ends at the returned position
RunMatchEnd(t, i, C, least) ==
    LET to == RunEnd(t, i, C) IN
    IF BoundaryAt(t, i) /\ to - i + 1 >= least /\ BoundaryAt(t, to + 1)
    THEN to ELSE 0

\* re.search(r"\b\d{8,}\b", message)
ExtractOpportunityId(msg) ==
    LET starts == {i \in 1..Len(msg) : RunMatchEnd(msg, i, Digits, 8) # 0} IN
    IF starts = {} THEN ExNone
    ELSE LET i == Least(starts)
             val == SubSeq(msg, i, RunMatchEnd(msg, i, Digits, 8))
         IN  ExPlain(Str(val), Str(val))

\* re.search(r"\b([A-Z0-9]{6,})\b", message)
ExtractAccountId(msg) ==
    LET C == UpperLetters \cup Digits
        starts == {i \in 1..Len(msg) : RunMatchEnd(msg, i, C, 6) # 0}
    IN  IF starts = {} THEN ExNone
        ELSE LET i == Least(starts)
                 val == SubSeq(msg, i, RunMatchEnd(msg, i, C, 6))
             IN  ExPlain(Str(val), Str(val))

\* api_value.replace("_", " ")
Spaced(t) == [i \in 1..Len(t) |-> IF t[i] = "_" THEN " " ELSE t[i]]

\* re.search(r"\b" + re.escape(w) + r"\b", t)
WholeWordIn(w, t) ==
    \E i \in 1..Len(t) :
        BoundaryAt(t, i) /\ HasAt(t, i, w) /\ BoundaryAt(t, i + Len(w))

\* PRODUCTS[api_value], with the key
ProductOf(api_value) ==
    PRODUCTS[CHOOSE i \in 1..Len(PRODUCTS) : PRODUCTS[i].value = api_value]

_extract_product(msg) ==
    LET msg_upper == Upper(msg)
        msg_lower == Lower(msg)
        n == Len(PRODUCTS)
        byKey == FirstIndex([i \in 1..n |->
                    \/ Contains(Spaced(PRODUCTS[i].value), msg_upper)
                    \/ Contains(PRODUCTS[i].value, msg_upper)])
        byLabel == FirstIndex([i \in 1..n |->
                    Contains(Lower(PRODUCTS[i].label), msg_lower)])
        byShort == FirstIndex([k \in 1..Len(_SHORT_NAMES) |->
                    WholeWordIn(_SHORT_NAMES[k].short, msg_lower)])
    IN  IF byKey # 0
        THEN ExPlain(Str(PRODUCTS[byKey].label), Str(PRODUCTS[byKey].value))
        ELSE IF byLabel # 0
        THEN ExPlain(Str(PRODUCTS[byLabel].label), Str(PRODUCTS[byLabel].value))
        ELSE IF byShort # 0
        THEN LET p == ProductOf(_SHORT_NAMES[byShort].api_value)
             IN  ExPlain(Str(p.label), Str(p.value))
        ELSE ExNone

\* what resolve_static returns: None, or a (value, label) pair
NoStatic == [found |-> FALSE, value |-> <<>>, label |-> <<>>]

resolve_static(param_name, text) ==
    IF param_name \notin DOMAIN STATIC_OPTIONS THEN NoStatic
    ELSE LET options == STATIC_OPTIONS[param_name]
             n == Len(options)
             t == Lower(Strip(text))
             lab(i) == Lower(options[i].label)
             val(i) == Lower(options[i].value)
             exact == FirstIndex([i \in 1..n |-> t = val(i) \/ t = lab(i)])
             partial == FirstIndex([i \in 1..n |->
                            \/ Contains(t, lab(i))
                            \/ Contains(lab(i), t)
                            \/ Contains(t, val(i))
                            \/ Contains(val(i), t)])
             hit == IF exact # 0 THEN exact ELSE partial
         IN  IF hit = 0 THEN NoStatic
             ELSE [found |-> TRUE, value |-> options[hit].value,
                   label |-> options[hit].label]

\* pdef.get("options", [])
OptionsOf(pdef) == IF "options" \in DOMAIN pdef THEN pdef.options ELSE <<>>

_extract_static(param_name, msg, pdef) ==
    LET options == OptionsOf(pdef)
        msg_lower == Lower(msg)
        own == FirstIndex([i \in 1..Len(options) |->
                    \/ Contains(Lower(options[i].value), msg_lower)
                    \/ Contains(Lower(options[i].label), msg_lower)])
        result == resolve_static(param_name, msg)
    IN  IF own # 0
        THEN ExPlain(Str(options[own].label), Str(options[own].value))
        ELSE IF result.found
        THEN ExPlain(Str(result.label), Str(result.value))
        ELSE ExNone

ExtractOneMutantRemoteNone(pdef, msg) ==
    IF pdef.name = "dealId" THEN ExtractDealId(msg)
    ELSE IF pdef.name = "opportunityId" THEN ExtractOpportunityId(msg)
    ELSE IF pdef.name = "accountId" THEN ExtractAccountId(msg)
    ELSE IF pdef.name = "customerName" THEN _extract_customer(msg)
    ELSE IF pdef.name = "productName" THEN _extract_product(msg)
    ELSE IF pdef.name \in DOMAIN STATIC_OPTIONS
    THEN _extract_static(pdef.name, msg, pdef)
    ELSE IF pdef.name = "service" THEN _extract_static("service", msg, pdef)
    ELSE IF pdef.subtype = "remote" /\ pdef.name # "productName"
    THEN LET hint == _extract_remote_hint(pdef.name, msg) IN
         IF Truthy(hint) THEN ExNeeds(hint.s) ELSE ExNone
    ELSE ExNone

\* the branch of extract_parameters' loop for one definition
ExtractOne(pdef, msg) ==
    IF pdef.name = "dealId" THEN ExtractDealId(msg)
    ELSE IF pdef.name = "opportunityId" THEN ExtractOpportunityId(msg)
    ELSE IF pdef.name = "accountId" THEN ExtractAccountId(msg)
    ELSE IF pdef.name = "customerName" THEN _extract_customer(msg)
    ELSE IF pdef.name = "productName" THEN _extract_product(msg)
    ELSE IF pdef.name \in DOMAIN STATIC_OPTIONS
    THEN _extract_static(pdef.name, msg, pdef)
    ELSE IF pdef.name = "service" THEN _extract_static("service", msg, pdef)
    ELSE IF pdef.subtype = "remote" /\ pdef.name # "productName"
    THEN LET hint == _extract_remote_hint(pdef.name, msg) IN
         IF Truthy(hint) THEN ExNeeds(hint.s) ELSE ExAuto
    ELSE ExNone

extract_parametersMutantReadsCatalog(msg, param_defs) ==
    [i \in 1..Len(param_defs) |->
        [name |-> param_defs[i].name,
         val |-> IF _CATALOG.loaded THEN ExNone
                 ELSE ExtractOne(param_defs[i], msg)]]

extract_parameters(msg, param_defs) ==
    [i \in 1..Len(param_defs) |->
        [name |-> param_defs[i].name, val |-> ExtractOne(param_defs[i], msg)]]

(***************************************************************************)
(* The messages the model draws from: up to MaxWords words, one blank      *)
(* between two.                                                            *)
(***************************************************************************)
Words ==
    { <<"f", "o", "r">>,
      <<"A", "c", "m", "e">>,
      <<"1", "0", "4", "4", "6", "1">>,
      <<"1", "2", "3", "4">>,
      <<"D", "-", "1", "2", "3", "4", "5">>,
      <<"1", "0", "4", "4", "6", "1", "2">>,
      <<"d", "e", "a", "l">> }

RECURSIVE Join(_)
Join(ws) ==
    IF ws = <<>> THEN <<>>
    ELSE IF Len(ws) = 1 THEN ws[1]
    ELSE ws[1] \o <<" ">> \o Join(Tail(ws))

Messages == {Join(ws) : ws \in SeqsUpTo(Words, MaxWords) \ {<<>>}}

\* the questions asked with a message
AskParams ==
    { PD("customerName", "remote", FALSE, <<>>, ""),
      PD("dealId", "", FALSE, <<>>, ""),
      PD("deployment", "remote", FALSE, <<>>, "") }

AskQuestions ==
    { [agent |-> "adoption", label |-> "Q", parameters |-> defs] :
        defs \in {d \in SeqsUpTo(AskParams, MaxParams) :
                    d # <<>> /\ DistinctNames(d)} }

(***************************************************************************)
(* The missing-parameter prompt.  The text is kept as its lines, each line *)
(* as the pieces its f-string is put together from.                        *)
(***************************************************************************)
_PARAM_EXAMPLES ==
    ("dealId" :> "D-12345")
    @@ ("customerName" :> "Acme Corp or CAV BU ID like 104461")
    @@ ("productName" :> "Duo, Umbrella, ISE, Secure Firewall, etc.")
    @@ ("accountId" :> "your Splunk account ID")
    @@ ("service" :> "Advanced Services or Technical Services")
    @@ ("deployment" :> "the deployment name")
    @@ ("featureName" :> "the feature name")
    @@ ("outcome" :> "the adoption outcome")
    @@ ("outcomes" :> "one or more adoption outcomes")
    @@ ("timeframe" :>
            "current quarter, last quarter, last 3 quarters, or 1 year")
    @@ ("tacSentimentTimePeriod" :>
            "current quarter, last quarter, or previous 2 quarters")
    @@ ("subscriptionTimeframe" :>
            "0-90 days, 91-180 days, or 181-360 days")
    @@ ("region" :> "Americas, EMEAR, or APJC")
    @@ ("comparison" :> "region, market segment, or industry vertical")
    @@ ("forecastStatuses" :> "Commit, Upside, or Most Likely")
    @@ ("metricType" :> "feature adoption metrics or usage/scale metrics")
    @@ ("opportunityId" :> "the opportunity ID number")
    @@ ("fiscalQuarter" :> "a fiscal quarter")
    @@ ("fiscalQuarters" :> "one or more fiscal quarters")
    @@ ("businessEntity" :> "a business entity")
    @@ ("stages" :> "one or more deal stages")
    @@ ("riskFactor" :> "a risk factor name")
    @@ ("renewalProgramLead" :> "a renewal program lead")
    @@ ("consumptionValue" :> "an EA consumption value range")
    @@ ("pmg" :> "a product mapping group")
    @@ ("vertical" :> "an industry vertical")
    @@ ("marketSegment" :> "a market segment")
    @@ ("deploymentList" :> "a deployment for the plan")

\* lines.append(f"  - {param}: e.g. {example}")
ParamLine(param) ==
    <<"  - ", param, ": e.g. ",
      IF param \in DOMAIN _PARAM_EXAMPLES THEN _PARAM_EXAMPLES[param]
      ELSE "a valid value">>

build_routing_errorMutantSkipsLast(q, missing_params) ==
    <<<<"Found question: '", q.label, "'">>,
      <<"Missing required parameters:">>>>
    \o [i \in 1..(Len(missing_params) - 1) |-> ParamLine(missing_params[i])]
    \o <<<<"">>,
          <<"Please include these values in your question and try again.">>>>

build_routing_error(q, missing_params) ==
    <<<<"Found question: '", q.label, "'">>,
      <<"Missing required parameters:">>>>
    \o [i \in 1..Len(missing_params) |-> ParamLine(missing_params[i])]
    \o <<<<"">>,
          <<"Please include these values in your question and try again.">>>>

\* the handler returned this string
ReturnedText(text) == [kind |-> "returned", text |-> text]
\* the handler was left by this exception
RaisedError(type) == [kind |-> "raised", text |-> <<<<type>>>>]

NoneNamesMutantEmpty(ex) == <<>>

\* the names of extracted whose value is None, in the dict's order
RECURSIVE NoneNames(_)
NoneNames(ex) ==
    IF ex = <<>> THEN <<>>
    ELSE (IF Head(ex).val.isNone THEN <<Head(ex).name>> ELSE <<>>)
         \o NoneNames(Tail(ex))

\* _ask_structured from extract_parameters to the resolver's for loop, for a
\* question the matcher returned and cookies that are loaded
ExtractAndResolve ==
    /\ pc = "start"
    /\ \E msg \in Messages, q \in AskQuestions :
        LET ex == extract_parameters(msg, q.parameters)
            truly_missing == NoneNames(ex)
        IN  /\ message' = msg
            /\ question' = q
            /\ extracted' = ex
            /\ IF truly_missing # <<>>
               THEN /\ pc' = "missing"       \* return build_routing_error
                    /\ reply' = ReturnedText(
                                    build_routing_error(q, truly_missing))
                    /\ UNCHANGED <<ordered_names, idx>>
               ELSE /\ ordered_names' = SortedByKey(NamesOf(ex), <<>>)
                    /\ idx' = 1
                    /\ pc' = "loop"
                    /\ UNCHANGED reply
    /\ parameters' = <<>>
    /\ unresolvable' = <<>>
    /\ UNCHANGED <<inflight, calls, probe, _CATALOG, log>>

(***************************************************************************)
(* client.py and the rest of _ask_structured.  A Python call raises        *)
(* TypeError when it passes a keyword the function does not declare.       *)
(***************************************************************************)
\* def build_structured_body(question, question_id, frontend_id, agent,
\*                           parameters)
build_structured_body_params ==
    {"question", "question_id", "frontend_id", "agent", "parameters"}

\* the keywords of the call at server.py 336-343
BodyCallKeywords ==
    {"question", "question_id", "frontend_id", "agent", "parameters",
     "thread_id"}

Accepts(declared, keywords) == keywords \subseteq declared

\* _ask_structured from the resolver's return to the call of call_structured
AfterResolver ==
    /\ pc = "done"
    /\ message # <<>>
    /\ IF unresolvable # <<>>
       THEN /\ pc' = "returned"
            /\ reply' = ReturnedText(
                            build_routing_error(question, unresolvable))
       ELSE IF Accepts(build_structured_body_params, BodyCallKeywords)
       THEN pc' = "call_structured" /\ UNCHANGED reply
       ELSE pc' = "raised" /\ reply' = RaisedError("TypeError")
    /\ UNCHANGED <<message, question, extracted, ordered_names, idx,
                   parameters, unresolvable, inflight, calls, probe,
                   _CATALOG, log>>

(***************************************************************************)
(* Calls of the resolver on questions with outcome parameters, the hint    *)
(* one that an option carries or one that no option carries.               *)
(***************************************************************************)
OutcomeParams ==
    { PD("outcome", "remote", FALSE, <<>>, ""),
      PD("outcomes", "remote", TRUE, <<>>, "OUTCOME_SUMMARY"),
      PD("outcomes", "remote", FALSE, <<>>, ""),
      PD("deployment", "remote", FALSE, <<>>, "OUTCOME_SUMMARY") }

OutcomeQuestions ==
    { [agent |-> a, parameters |-> defs] :
        a \in Agents,
        defs \in {d \in SeqsUpTo(OutcomeParams, MaxParams) :
                    d # <<>> /\ DistinctNames(d)} }

OutcomeExVals == { ExNeeds(<<"z">>), ExNeeds(T_a), ExAuto }

OutcomeExtractions(q) ==
    { [i \in 1..Len(q.parameters) |->
            [name |-> q.parameters[i].name, val |-> f[i]]] :
        f \in [1..Len(q.parameters) -> OutcomeExVals] }

\* a call of _resolve_params_with_lookups, up to the for loop
CallResolverOutcome ==
    /\ pc = "start"
    /\ \E q \in OutcomeQuestions :
        \E ex \in OutcomeExtractions(q) :
            /\ question' = q
            /\ extracted' = ex
            /\ ordered_names' = SortedByKey(NamesOf(ex), <<>>)
    /\ parameters' = <<>>
    /\ unresolvable' = <<>>
    /\ idx' = 1
    /\ pc' = "loop"
    /\ UNCHANGED <<message, inflight, calls, probe, reply,
                   _CATALOG, log>>

NextOutcome ==
    \/ CallResolverOutcome
    \/ Iterate
    \/ Respond
    \/ Return

SpecOutcome == InitLookup /\ [][NextOutcome]_vars

(***************************************************************************)
(* Calls of the resolver on questions whose parameters declare multiple or *)
(* not, the extracted value a string or already a list.                    *)
(***************************************************************************)
MultipleParams ==
    { PD("dealId", "", TRUE, <<>>, ""),
      PD("dealId", "", FALSE, <<>>, ""),
      PD("outcomes", "remote", TRUE, <<>>, "OUTCOME_SUMMARY"),
      PD("outcomes", "remote", FALSE, <<>>, ""),
      PD("deployment", "remote", TRUE, <<>>, "") }

MultipleQuestions ==
    { [agent |-> "adoption", parameters |-> defs] :
        defs \in {d \in SeqsUpTo(MultipleParams, MaxParams) :
                    d # <<>> /\ DistinctNames(d)} }

MultipleExVals ==
    { ExPlain(Str(T_A), Str(T_a)),
      ExPlain(Str(T_A), ListOf(Str(T_a))),
      ExAuto }

MultipleExtractions(q) ==
    { [i \in 1..Len(q.parameters) |->
            [name |-> q.parameters[i].name, val |-> f[i]]] :
        f \in [1..Len(q.parameters) -> MultipleExVals] }

\* a call of _resolve_params_with_lookups, up to the for loop
CallResolverMultiple ==
    /\ pc = "start"
    /\ \E q \in MultipleQuestions :
        \E ex \in MultipleExtractions(q) :
            /\ question' = q
            /\ extracted' = ex
            /\ ordered_names' = SortedByKey(NamesOf(ex), <<>>)
    /\ parameters' = <<>>
    /\ unresolvable' = <<>>
    /\ idx' = 1
    /\ pc' = "loop"
    /\ UNCHANGED <<message, inflight, calls, probe, reply,
                   _CATALOG, log>>

NextMultiple ==
    \/ CallResolverMultiple
    \/ Iterate
    \/ Respond
    \/ Return

SpecMultiple == InitLookup /\ [][NextMultiple]_vars

(***************************************************************************)
(* Direct calls of extract_parameters, each on one message and one         *)
(* parameter definition.  A message is up to MaxWords phrases, one blank   *)
(* between two.                                                            *)
(***************************************************************************)
StaticDef(name, subtype, options) ==
    [name |-> name, subtype |-> subtype, multiple |-> FALSE,
     binding |-> <<>>, valueField |-> "", options |-> options]

T_High == <<"H", "i", "g", "h">>
T_high == <<"h", "i", "g", "h">>
T_Low == <<"L", "o", "w">>
T_low == <<"l", "o", "w">>
T_quarter == <<"q", "u", "a", "r", "t", "e", "r">>

\* static-select definitions: names of the global table with options of their
\* own, a name outside the table with options of its own, and a name of the
\* table without options
StaticParams ==
    { StaticDef("timeframe", "static",
        <<StaticOption(<<"C", "u", "r", "r", "e", "n", "t", " ", "q", "u",
                         "a", "r", "t", "e", "r">>,
                       <<"c", "u", "r", "r", "e", "n", "t", " ", "q", "u",
                         "a", "r", "t", "e", "r">>),
          StaticOption(<<"L", "a", "s", "t", " ", "q", "u", "a", "r", "t",
                         "e", "r">>,
                       <<"l", "a", "s", "t", " ", "q", "u", "a", "r", "t",
                         "e", "r">>)>>),
      StaticDef("tacSentimentTimePeriod", "static",
        <<StaticOption(T_High, T_high),
          StaticOption(<<"Q", "u", "a", "r", "t", "e", "r">>, T_quarter)>>),
      StaticDef("priority", "static",
        <<StaticOption(T_High, T_high), StaticOption(T_Low, T_low)>>),
      StaticDef("service", "static",
        <<StaticOption(T_Low, T_low), StaticOption(T_High, T_high)>>),
      PD("region", "static", FALSE, <<>>, "") }

StaticWords ==
    { <<"l", "a", "s", "t", " ", "q", "u", "a", "r", "t", "e", "r">>,
      <<"C", "u", "r", "r", "e", "n", "t">>,
      <<"q", "u", "a", "r", "t", "e", "r">>,
      <<"h", "i", "g", "h">>,
      <<"L", "O", "W">>,
      <<"A", "m", "e", "r", "i", "c", "a", "s">>,
      <<"x">> }

StaticMessages == {Join(ws) : ws \in SeqsUpTo(StaticWords, MaxWords) \ {<<>>}}

\* remote-select definitions: names with a hint rule, names without one, and
\* a name of the global static table
RemoteParams ==
    { PD("deployment", "remote", FALSE, <<>>, ""),
      PD("deploymentList", "remote", FALSE, <<>>, ""),
      PD("outcomes", "remote", TRUE, <<>>, ""),
      PD("featureName", "remote", FALSE, <<>>, ""),
      PD("stages", "remote", TRUE, <<>>, ""),
      PD("region", "remote", FALSE, <<>>, ""),
      PD("zzz", "", FALSE, <<>>, "") }

HintWords ==
    { <<"P", "r", "i", "m", "a", "r", "y">>,
      <<"d", "e", "p", "l", "o", "y", "m", "e", "n", "t">>,
      <<"e", "a", "s", "t", "-", "1">>,
      <<"f", "e", "a", "t", "u", "r", "e">>,
      <<"F", "o", "o", "?">>,
      <<"d", "a", "t", "a", " ", "c", "e", "n", "t", "e", "r">>,
      <<"x">> }

HintMessages == {Join(ws) : ws \in SeqsUpTo(HintWords, MaxWords) \ {<<>>}}

ProductWords ==
    { <<"S", "E", "C", "U", "R", "E", "_", "E", "M", "A", "I", "L">>,
      <<"C", "R", "O", "S", "S", "W", "O", "R", "K", " ", "C", "L", "O", "U",
        "D">>,
      <<"S", "e", "c", "u", "r", "e", " ", "F", "i", "r", "e", "w", "a", "l",
        "l">>,
      <<"f", "i", "r", "e", "w", "a", "l", "l">>,
      <<"d", "u", "o">>,
      <<"s", "d", "w", "a", "n">>,
      <<"x">> }

ProductMessages ==
    {Join(ws) : ws \in SeqsUpTo(ProductWords, MaxWords) \ {<<>>}}

ExtractProbe(msg, pdef) ==
    [fn |-> "extract_parameters", msg |-> msg, pdef |-> pdef,
     got |-> extract_parameters(msg, <<pdef>>)]

CallExtractStatic ==
    /\ pc = "start"
    /\ pc' = "probed"
    /\ \E msg \in StaticMessages, pdef \in StaticParams :
        probe' = ExtractProbe(msg, pdef)
    /\ ProbeFrame

CallExtractRemote ==
    /\ pc = "start"
    /\ pc' = "probed"
    /\ \E msg \in HintMessages, pdef \in RemoteParams :
        probe' = ExtractProbe(msg, pdef)
    /\ ProbeFrame

CallExtractProduct ==
    /\ pc = "start"
    /\ pc' = "probed"
    /\ \E msg \in ProductMessages :
        probe' = ExtractProbe(msg, PD("productName", "remote", FALSE, <<>>, ""))
    /\ ProbeFrame

NextExtract ==
    \/ CallExtractStatic
    \/ CallExtractRemote
    \/ CallExtractProduct

SpecExtract == InitLookup /\ [][NextExtract]_vars

(***************************************************************************)
(* The question matcher.  rapidfuzz is not part of the repository: its     *)
(* scorer fuzz.token_set_ratio and process.extractOne are written here as  *)
(* the library computes them.  A score is the fraction num / den, so that  *)
(* scores are compared exactly.                                            *)
(***************************************************************************)
\* the characters in the order of their code points
CodePoints ==
    << " ", "'", "-", "0", "1", "2", "3", "4", "5", "6", "7", "8",
       "9", "?", "A", "B", "C", "D", "E", "F", "G", "H", "I", "J",
       "K", "L", "M", "N", "O", "P", "Q", "R", "S", "T", "U", "V",
       "W", "X", "Y", "Z", "_", "a", "b", "c", "d", "e", "f", "g",
       "h", "i", "j", "k", "l", "m", "n", "o", "p", "q", "r", "s",
       "t", "u", "v", "w", "x", "y", "z" >>

CodePoint(c) == CHOOSE i \in 1..Len(CodePoints) : CodePoints[i] = c

\* a < b for str
RECURSIVE LexLess(_, _)
LexLess(a, b) ==
    IF b = <<>> THEN FALSE
    ELSE IF a = <<>> THEN TRUE
    ELSE IF a[1] = b[1] THEN LexLess(Tail(a), Tail(b))
    ELSE CodePoint(a[1]) < CodePoint(b[1])

\* str.split(): the maximal runs of characters that are not spaces
RECURSIVE SplitFrom(_, _, _)
SplitFrom(t, i, cur) ==
    IF i > Len(t) THEN (IF cur = <<>> THEN <<>> ELSE <<cur>>)
    ELSE IF t[i] = " "
         THEN (IF cur = <<>> THEN <<>> ELSE <<cur>>) \o SplitFrom(t, i + 1, <<>>)
    ELSE SplitFrom(t, i + 1, Append(cur, t[i]))

\* set(s.split())
Tokens(t) == {SplitFrom(t, 1, <<>>)[i] : i \in 1..Len(SplitFrom(t, 1, <<>>))}

\* " ".join(sorted(tokens))
RECURSIVE SortedJoin(_)
SortedJoin(tokens) ==
    IF tokens = {} THEN <<>>
    ELSE LET first == CHOOSE x \in tokens :
                        \A y \in tokens \ {x} : LexLess(x, y)
         IN  IF tokens = {first} THEN first
             ELSE first \o <<" ">> \o SortedJoin(tokens \ {first})

\* the length of the longest common subsequence
RECURSIVE LCS(_, _)
LCS(a, b) ==
    IF a = <<>> \/ b = <<>> THEN 0
    ELSE IF a[1] = b[1] THEN 1 + LCS(Tail(a), Tail(b))
    ELSE LET x == LCS(Tail(a), b)
             y == LCS(a, Tail(b))
         IN  IF x >= y THEN x ELSE y

\* Indel distance: insertions and deletions only
indel_distance(a, b) == Len(a) + Len(b) - 2 * LCS(a, b)

Score(num, den) == [num |-> num, den |-> den]
ScoreGeq(a, b) == a.num * b.den >= b.num * a.den
ScoreGt(a, b) == a.num * b.den > b.num * a.den
ScoreMax(a, b) == IF ScoreGeq(a, b) THEN a ELSE b

\* 100 - 100 * dist / lensum, and 0 below the cutoff
norm_distance(dist, lensum, score_cutoff) ==
    LET score == IF lensum = 0 THEN Score(100, 1)
                 ELSE Score(100 * (lensum - dist), lensum)
    IN  IF ScoreGeq(score, score_cutoff) THEN score ELSE Score(0, 1)

token_set_ratio(s1, s2, score_cutoff) ==
    LET tokens_a == Tokens(s1)
        tokens_b == Tokens(s2)
        intersect == tokens_a \cap tokens_b
        diff_ab == tokens_a \ tokens_b
        diff_ba == tokens_b \ tokens_a
        diff_ab_joined == SortedJoin(diff_ab)
        diff_ba_joined == SortedJoin(diff_ba)
        ab_len == Len(diff_ab_joined)
        ba_len == Len(diff_ba_joined)
        sect_len == Len(SortedJoin(intersect))
        gap == IF sect_len # 0 THEN 1 ELSE 0
        sect_ab_len == sect_len + gap + ab_len
        sect_ba_len == sect_len + gap + ba_len
        result == norm_distance(indel_distance(diff_ab_joined, diff_ba_joined),
                                sect_ab_len + sect_ba_len, score_cutoff)
        sect_ab_ratio == norm_distance(gap + ab_len, sect_len + sect_ab_len,
                                       score_cutoff)
        sect_ba_ratio == norm_distance(gap + ba_len, sect_len + sect_ba_len,
                                       score_cutoff)
    IN  IF s1 = <<>> \/ s2 = <<>> THEN Score(0, 1)
        ELSE IF tokens_a = {} \/ tokens_b = {} THEN Score(0, 1)
        ELSE IF intersect # {} /\ (diff_ab = {} \/ diff_ba = {})
             THEN Score(100, 1)
        ELSE IF sect_len = 0 THEN result
        ELSE ScoreMax(ScoreMax(result, sect_ab_ratio), sect_ba_ratio)

NoMatch == [found |-> FALSE, key |-> "", score |-> Score(0, 1)]
Match(key, score) == [found |-> TRUE, key |-> key, score |-> score]

\* the loop of process.extractOne over the items of choices
RECURSIVE ExtractScan(_, _, _, _, _)
ExtractScan(query, choices, i, score_cutoff, result) ==
    IF i > Len(choices) THEN result
    ELSE LET score == token_set_ratio(query, choices[i].text, score_cutoff)
             better == /\ ScoreGeq(score, score_cutoff)
                       /\ ~result.found \/ ScoreGt(score, result.score)
             kept == IF better THEN Match(choices[i].key, score) ELSE result
         IN  IF ScoreGeq(score, Score(100, 1)) THEN kept
             ELSE ExtractScan(query, choices, i + 1,
                              IF better THEN score ELSE score_cutoff, kept)

Reverse(s) == [i \in 1..Len(s) |-> s[Len(s) + 1 - i]]

extractOneMutantLastWins(query, choices, score_cutoff) ==
    ExtractScan(query, Reverse(choices), 1, Score(score_cutoff, 1), NoMatch)

extractOne(query, choices, score_cutoff) ==
    ExtractScan(query, choices, 1, Score(score_cutoff, 1), NoMatch)

\* a catalog entry; followups absent is followups <<>>
Entry(id, label, questionTemplate, followups, followupLabel) ==
    [id |-> id, label |-> label, questionTemplate |-> questionTemplate,
     followups |-> followups, followupLabel |-> followupLabel]

\* catalog.json: a list, or an object with questions, data, both or neither
CatalogFile(isList, list, questions, data) ==
    [isList |-> isList, list |-> list, questions |-> questions, data |-> data]

\* raw if isinstance(raw, list) else raw.get("questions", raw.get("data", []))
ParseCatalog(raw) ==
    IF raw.isList THEN raw.list
    ELSE IF raw.questions.k # "absent" THEN raw.questions.items
    ELSE IF raw.data.k # "absent" THEN raw.data.items
    ELSE <<>>

\* the value of _CATALOG after _load_catalog()
_load_catalog(raw) ==
    IF _CATALOG.loaded THEN _CATALOG ELSE Loaded(ParseCatalog(raw))

ChoiceText(q) ==
    q.label \o <<" ">> \o Fmt(GetOr(q.questionTemplate, Str(<<>>)))

\* {q["id"]: f"{q['label']} {q.get('questionTemplate', '')}" for q in catalog}
\* a repeated id keeps its first place and takes the last text
RECURSIVE ChoicesOf(_, _)
ChoicesOf(catalog, acc) ==
    IF catalog = <<>> THEN acc
    ELSE LET q == catalog[1]
             item == [key |-> q.id, text |-> ChoiceText(q)]
             at == {i \in 1..Len(acc) : acc[i].key = q.id}
         IN  ChoicesOf(Tail(catalog),
                       IF at = {} THEN Append(acc, item)
                       ELSE [acc EXCEPT ![Least(at)] = item])

NoEntry == [found |-> FALSE, entry |-> Entry("", <<>>, Absent, <<>>, Absent)]
Found(q) == [found |-> TRUE, entry |-> q]

find_best_question(catalog, msg, threshold) ==
    LET result == extractOne(msg, ChoicesOf(catalog, <<>>), threshold)
        first == Least({i \in 1..Len(catalog) : catalog[i].id = result.key})
    IN  IF ~result.found THEN NoEntry ELSE Found(catalog[first])

\* catalog_by_id.get(fid): the last entry with the id
RECURSIVE Followups(_, _)
Followups(catalog, followup_ids) ==
    IF followup_ids = <<>> THEN <<>>
    ELSE LET fid == followup_ids[1]
             at == {i \in 1..Len(catalog) : catalog[i].id = fid}
             fq == catalog[CHOOSE i \in at : \A j \in at : j <= i]
             rest == Followups(catalog, Tail(followup_ids))
         IN  IF at = {} THEN rest
             ELSE <<[id |-> fid,
                     label |-> Or(Get(fq.followupLabel), Str(fq.label))]>>
                  \o rest

get_followups(catalog, q) == Followups(catalog, q.followups)

(***************************************************************************)
(* Direct calls of find_best_question, each on a freshly imported module   *)
(* and one catalog file.                                                   *)
(***************************************************************************)
MaxEntries == 2

EntryIds == <<"q1", "q2", "q3", "q4">>

\* label and questionTemplate of the entries a catalog is made of
EntryTexts ==
    { [label |-> <<"a", " ", "b">>, questionTemplate |-> Absent],
      [label |-> <<"a">>, questionTemplate |-> Absent],
      [label |-> <<"b", " ", "c">>, questionTemplate |-> Str(<<"a">>)],
      [label |-> <<"a", "b">>, questionTemplate |-> Absent],
      [label |-> <<"a", " ", "c">>, questionTemplate |-> Str(<<>>)],
      [label |-> <<"a", "b", "c">>, questionTemplate |-> Str(<<"d">>)] }

\* the catalogs: entries with different texts, ids in the order of the file
Catalogs ==
    { [i \in 1..Len(ts) |->
            Entry(EntryIds[i], ts[i].label, ts[i].questionTemplate, <<>>,
                  Absent)] :
        ts \in {s \in SeqsUpTo(EntryTexts, MaxEntries) :
                    \A i, j \in 1..Len(s) : s[i] = s[j] => i = j} }

FilesOf(entries) ==
    { CatalogFile(TRUE, entries, FldAbsent, FldAbsent),
      CatalogFile(FALSE, <<>>, FldList(entries), FldAbsent),
      CatalogFile(FALSE, <<>>, FldAbsent, FldList(entries)) }

MatchMessages ==
    { <<"a">>, <<"a", " ", "b">>, <<"a", "b">>, <<"b", " ", "c">>, <<"a", " ", "c">>, <<"a", "b", "c">>, <<"z">>, <<>> }

Thresholds == {50, 75, 100}

CallFindBestQuestion ==
    /\ pc = "start"
    /\ pc' = "probed"
    /\ \E entries \in Catalogs, msg \in MatchMessages, threshold \in Thresholds :
        \E raw \in FilesOf(entries) :
            /\ _CATALOG' = _load_catalog(raw)
            /\ probe' = [fn |-> "find_best_question", msg |-> msg,
                         threshold |-> threshold,
                         got |-> find_best_question(_CATALOG'.entries, msg,
                                                    threshold)]
    /\ UNCHANGED <<message, question, extracted, ordered_names, idx,
                   parameters, unresolvable, inflight, calls, reply, log>>

NextMatch == CallFindBestQuestion

SpecMatch == InitLookup /\ [][NextMatch]_vars

(***************************************************************************)
(* The routing module called several times in one process: up to MaxCalls  *)
(* calls of its three public functions in any order, over one catalog      *)
(* file.  Every call and its result is appended to log.                    *)
(***************************************************************************)
MaxCalls == 3

ModuleEntries ==
    << Entry("q1", <<"a", " ", "b">>, Absent, <<"q2", "q9">>, Absent),
       Entry("q2", <<"a">>, Str(<<"c">>), <<>>, Str(<<"A">>)) >>

ModuleFiles ==
    { CatalogFile(TRUE, ModuleEntries, FldAbsent, FldAbsent),
      CatalogFile(FALSE, <<>>, FldList(<<ModuleEntries[2]>>),
                  FldList(ModuleEntries)),
      CatalogFile(FALSE, <<>>, FldAbsent, FldAbsent) }

ModuleMessages == { <<"a">>, <<"f", "o", "r", " ", "A", "c", "m", "e">>, <<"d", "e", "a", "l", " ", "D", "-", "1", "2", "3", "4", "5">> }

ModuleDefs ==
    { <<PD("customerName", "remote", FALSE, <<>>, "")>>,
      <<PD("dealId", "", FALSE, <<>>, ""),
        PD("deployment", "remote", FALSE, <<>>, "")>> }

Logged(fn, msg, defs, got) ==
    [fn |-> fn, msg |-> msg, defs |-> defs, got |-> got]

ModuleFrame ==
    UNCHANGED <<pc, message, question, extracted, ordered_names, idx,
                parameters, unresolvable, inflight, calls, probe, reply>>

ModuleFindBestQuestion ==
    /\ Len(log) < MaxCalls
    /\ \E raw \in ModuleFiles, msg \in ModuleMessages :
        /\ _CATALOG' = _load_catalog(raw)
        /\ log' = Append(log,
                Logged("find_best_question", msg, <<>>,
                       find_best_question(_CATALOG'.entries, msg, 50)))
    /\ ModuleFrame

ModuleGetFollowups ==
    /\ Len(log) < MaxCalls
    /\ \E raw \in ModuleFiles, i \in 1..Len(ModuleEntries) :
        /\ _CATALOG' = _load_catalog(raw)
        /\ log' = Append(log,
                Logged("get_followups", ModuleEntries[i].label, <<>>,
                       get_followups(_CATALOG'.entries, ModuleEntries[i])))
    /\ ModuleFrame

ModuleExtractParameters ==
    /\ Len(log) < MaxCalls
    /\ \E msg \in ModuleMessages, param_defs \in ModuleDefs :
        log' = Append(log,
                Logged("extract_parameters", msg, param_defs,
                       extract_parameters(msg, param_defs)))
    /\ UNCHANGED _CATALOG
    /\ ModuleFrame

NextModule ==
    \/ ModuleFindBestQuestion
    \/ ModuleGetFollowups
    \/ ModuleExtractParameters

SpecModule == InitLookup /\ [][NextModule]_vars

(***************************************************************************)
(* The resolver on one remote parameter that carries a hint, over every    *)
(* response the option lookup may get.                                     *)
(***************************************************************************)
HintParams ==
    { PD("deployment", "remote", FALSE, <<>>, ""),
      PD("featureName", "remote", FALSE, <<>>, "") }

HintExVals ==
    {ExNeeds(h) : h \in Hints} \cup {ExPlain(Str(T_A), Str(T_a))}

CallResolverHint ==
    /\ pc = "start"
    /\ \E pdef \in HintParams, val \in HintExVals :
        /\ question' = [agent |-> "adoption", parameters |-> <<pdef>>]
        /\ extracted' = <<[name |-> pdef.name, val |-> val]>>
        /\ ordered_names' = SortedByKey(<<pdef.name>>, <<>>)
    /\ parameters' = <<>>
    /\ unresolvable' = <<>>
    /\ idx' = 1
    /\ pc' = "loop"
    /\ UNCHANGED <<message, inflight, calls, probe, reply,
                   _CATALOG, log>>

RespondHint == RespondWith(Responses)

NextHint ==
    \/ CallResolverHint
    \/ Iterate
    \/ RespondHint
    \/ Return

SpecHint == InitLookup /\ [][NextHint]_vars

(***************************************************************************)
(* Direct calls of _build_dependent_body: one parameter definition and a   *)
(* resolved map of up to MaxParams entries.                                *)
(***************************************************************************)
BodyDefs ==
    { PD("deployment", "remote", FALSE,
         <<BindField("customerId", "customerName", ""),
           BindValue("input_type", Str(<<"P">>))>>, ""),
      PD("deployment", "remote", FALSE,
         <<BindField("customerId", "customerName", "")>>, ""),
      PD("outcomes", "remote", TRUE,
         <<BindField("deploymentList", "deployment", "")>>, ""),
      PD("outcomes", "remote", TRUE,
         <<BindField("deployment", "deploymentList", "to-array"),
           BindField("product", "productName", "")>>, ""),
      PD("metrics", "remote", TRUE,
         <<BindField("pmg", "pmg", "to-array")>>, ""),
      PD("deployment", "remote", FALSE, <<>>, ""),
      PD("outcome", "remote", FALSE, <<>>, ""),
      PD("dealId", "", FALSE, <<>>, "") }

BodySources ==
    {"customerName", "productName", "deployment", "deploymentList", "pmg"}

\* the resolved maps: each entry as the loop body leaves it
ResolvedMaps ==
    UNION { [S -> { [label |-> Str(T_A), value |-> Str(T_a), hidden |-> FALSE],
                    [label |-> Str(T_B), value |-> ListOf(Str(T_b)),
                     hidden |-> FALSE] }] :
            S \in {X \in SUBSET BodySources : Cardinality(X) <= MaxParams} }

CallBuildDependentBody ==
    /\ pc = "start"
    /\ pc' = "probed"
    /\ \E pdef \in BodyDefs, params \in ResolvedMaps :
        probe' = [fn |-> "_build_dependent_body", pdef |-> pdef,
                  parameters |-> params,
                  got |-> _build_dependent_body(
                            [agent |-> "adoption", parameters |-> <<pdef>>],
                            params, pdef.name)]
    /\ ProbeFrame

NextBody == CallBuildDependentBody

SpecBody == InitLookup /\ [][NextBody]_vars

(***************************************************************************)
(* _ask_structured from the extraction to the resolver, with the loading   *)
(* of the cookies.  The calls of load_cookies are appended to log.         *)
(***************************************************************************)
Environments == {"production", "stage"}

\* what load_cookies finds: no readable file (None), an empty list, a list
NoCookieFile == "None"
CookieFiles == {NoCookieFile, "[]", "[cookie]"}

\* not cookies_list
NotCookies(cookies_list) == cookies_list \in {NoCookieFile, "[]"}

NotAuthenticated(environment) ==
    <<<<"Not authenticated. Ask me to 'login to CX Assistant ", environment,
        "' first.">>>>

\* _ask_structured up to the return of the missing-parameter message
AskStructured ==
    /\ pc = "start"
    /\ \E environment \in Environments, msg \in Messages, q \in AskQuestions :
        LET ex == extract_parameters(msg, q.parameters)
            truly_missing == NoneNames(ex)
        IN  /\ message' = msg
            /\ question' = q
            /\ extracted' = ex
            /\ probe' = [fn |-> "_ask_structured",
                         environment |-> environment]
            /\ IF truly_missing # <<>>
               THEN /\ pc' = "missing"       \* return build_routing_error
                    /\ reply' = ReturnedText(
                                    build_routing_error(q, truly_missing))
               ELSE /\ pc' = "cookies"
                    /\ UNCHANGED reply
    /\ UNCHANGED <<ordered_names, idx, parameters, unresolvable, inflight,
                   calls, _CATALOG, log>>

\* cookies = _get_cookies_or_error(environment), then the resolver's start
GetCookiesOrError ==
    /\ pc = "cookies"
    /\ \E cookies_list \in CookieFiles :
        /\ log' = Append(log, [fn |-> "load_cookies",
                               environment |-> probe.environment,
                               got |-> cookies_list])
        /\ IF NotCookies(cookies_list)
           THEN /\ pc' = "returned"
                /\ reply' = ReturnedText(NotAuthenticated(probe.environment))
                /\ UNCHANGED <<ordered_names, idx>>
           ELSE /\ ordered_names' = SortedByKey(NamesOf(extracted), <<>>)
                /\ idx' = 1
                /\ pc' = "loop"
                /\ UNCHANGED reply
    /\ UNCHANGED <<message, question, extracted, parameters, unresolvable,
                   inflight, calls, probe, _CATALOG>>

NextAsk ==
    \/ AskStructured
    \/ GetCookiesOrError
    \/ Iterate
    \/ Respond
    \/ Return
    \/ AfterResolver

SpecAsk == InitLookup /\ [][NextAsk]_vars

Init == InitLookup

Next ==
    \/ CallResolver
    \/ ExtractAndResolve
    \/ Iterate
    \/ Respond
    \/ Return
    \/ AfterResolver

Spec == Init /\ [][Next]_vars

(***************************************************************************)
(* Claims about _resolve_params_with_lookups, checked under Spec.          *)
(***************************************************************************)
InResolver == pc \in {"loop", "await", "done", "escaped"}

ExNames == {extracted[i].name : i \in 1..Len(extracted)}

InUnresolved(n) == \E i \in 1..Len(unresolvable) : unresolvable[i] = n
Settled(n) == n \in DOMAIN parameters \/ InUnresolved(n)
InFlightFor(n) == \E i \in 1..Len(inflight) : inflight[i].name = n
\* the loop has entered the body for n
Began(n) == Settled(n) \/ InFlightFor(n)
\* the loop has left the body for n
Finished(n) ==
    \E i \in 1..Len(ordered_names) : ordered_names[i] = n /\ i < idx

\* every lookup call made so far, answered or not
CallsMade ==
    {calls[i].call : i \in 1..Len(calls)}
        \cup {inflight[i] : i \in 1..Len(inflight)}
AnswersFor(n) == {i \in 1..Len(calls) : calls[i].call.name = n}

\* the names B's lookup body draws on: the fieldName of each field of its
\* declared binding, else its entry of the fallback dependency table
DrawsOn(B) ==
    LET binding == _get_param_def(question, B).binding IN
    IF binding # <<>>
    THEN {binding[i].fieldName :
            i \in {j \in 1..Len(binding) : binding[j].kind = "field"}}
    ELSE IF B \in DOMAIN _FALLBACK_PARAM_DEPS
    THEN {_FALLBACK_PARAM_DEPS[B][i] :
            i \in 1..Len(_FALLBACK_PARAM_DEPS[B])}
    ELSE {}

BodyCarries(body, v) ==
    \E key \in DOMAIN body : body[key] = v \/ body[key] = ListOf(v)

\* C1: for every pair of parameters A and B of the question where B's lookup
\* request body draws on A, the lookup for B is issued only after A has been
\* placed in the resolved map, and the body sent for B contains A's resolved
\* value.
C1_DependencyFirst ==
    InResolver =>
        \A c \in CallsMade :
            c.fn = "get_list" =>
                \A A \in DrawsOn(c.name) \cap ExNames :
                    /\ A \in c.resolved
                    /\ BodyCarries(c.body, parameters[A].value)

PositionIn(seq, n) == CHOOSE i \in 1..Len(seq) : seq[i] = n

\* a is due before b: by the priority list, a listed name before an unlisted
\* one, and two unlisted names in the order of the extracted mapping
DueBefore(a, b) ==
    IF Listed(a) /\ Listed(b)
    THEN PositionIn(_RESOLVE_ORDER, a) < PositionIn(_RESOLVE_ORDER, b)
    ELSE IF Listed(a) THEN TRUE
    ELSE IF Listed(b) THEN FALSE
    ELSE PositionIn(NamesOf(extracted), a) < PositionIn(NamesOf(extracted), b)

\* C2: the resolver processes the extracted names in the order of
\* _RESOLVE_ORDER, every name absent from that list after all listed names,
\* and the unlisted names among themselves in the order of the extracted
\* mapping: whenever the loop has entered the body for a and not yet for b,
\* or has left it for a and not for b, a is due before b.
C2_PriorityOrder ==
    InResolver =>
        \A a, b \in ExNames :
            (a # b /\ ( \/ Began(a) /\ ~Began(b)
                        \/ Settled(a) /\ ~Settled(b) ))
                => DueBefore(a, b)

\* an unlisted name extracted ahead of a listed one, both processed
C2_Witness ==
    /\ pc = "done"
    /\ Len(extracted) >= 2
    /\ ~Listed(extracted[1].name)
    /\ Listed(extracted[2].name)
    /\ Settled(extracted[1].name)
    /\ Settled(extracted[2].name)

\* this step is the return of a lookup call that raised
LookupRaisedStep ==
    /\ Len(calls') = Len(calls) + 1
    /\ calls'[Len(calls')].got.raised

\* C3: if the lookup of one parameter raises (a transport error, a malformed
\* response), the parameter is added to the unresolved list and the loop goes
\* on from exactly the state an ordinary 'not found' leaves (the resolved map
\* untouched, the next name due); no exception leaves the resolver, and at its
\* return every extracted name has been processed.
C3_FailureIsolated ==
    /\ [][LookupRaisedStep =>
            /\ pc' = "loop"
            /\ idx' = idx + 1
            /\ inflight' = <<>>
            /\ parameters' = parameters
            /\ unresolvable' =
                Append(unresolvable, calls'[Len(calls')].call.name)]_vars
    /\ [](pc # "escaped")
    /\ [](pc = "done" => \A n \in ExNames : Settled(n))

\* a lookup raised for one parameter and a later parameter was resolved
C3_Witness ==
    /\ pc = "done"
    /\ \E i \in 1..Len(calls) :
        /\ calls[i].got.raised
        /\ InUnresolved(calls[i].call.name)
        /\ \E j \in (i + 1)..Len(calls) :
            calls[j].call.name \in DOMAIN parameters

Tagged(n) == ValOf(extracted, n).auto \/ ValOf(extracted, n).needs

\* every lookup made for n returned an empty list, and there was one
OnlyEmptyAnswers(n) ==
    /\ AnswersFor(n) # {}
    /\ \A i \in AnswersFor(n) : ~calls[i].got.raised /\ calls[i].got.opts = <<>>

\* C4: for a parameter tagged auto_resolve or needs_resolution, if the lookup
\* returns zero options then the name is in the unresolved list, is not a key
\* of the resolved map, and no exception escapes the resolver.
C4_NoOptionsUnresolved ==
    InResolver =>
        /\ pc # "escaped"
        /\ \A n \in ExNames :
            (Tagged(n) /\ Finished(n) /\ OnlyEmptyAnswers(n)) =>
                (InUnresolved(n) /\ n \notin DOMAIN parameters)

\* an auto_resolve parameter whose option lookup returned nothing
C4_Witness ==
    /\ pc = "done"
    /\ \E n \in ExNames :
        /\ ValOf(extracted, n).auto
        /\ Finished(n)
        /\ OnlyEmptyAnswers(n)
        /\ InUnresolved(n)

\* the value the resolved map holds for a resolved value v of parameter n
Wrapped(n, v) ==
    IF _get_param_def(question, n).multiple /\ v.k # "list"
    THEN ListOf(v) ELSE v

\* C5: for a customerName extraction tagged needs_resolution the resolver
\* calls the customer search with the extracted label; with at least one
\* result customerName is resolved to the label and the value of the first
\* result (the value wrapped as for any parameter declared multiple), with
\* none customerName is in the unresolved list and not in the resolved map.
C5_CustomerFirstResult ==
    ( /\ InResolver
      /\ "customerName" \in ExNames
      /\ ValOf(extracted, "customerName").needs
      /\ Finished("customerName") ) =>
        LET answers == AnswersFor("customerName") IN
        /\ Cardinality(answers) = 1
        /\ \A i \in answers :
            LET c == calls[i].call
                got == calls[i].got
            IN  /\ c.fn = "search_customers"
                /\ c.text = ValOf(extracted, "customerName").label
                /\ (~got.raised /\ got.opts # <<>>) =>
                    /\ "customerName" \in DOMAIN parameters
                    /\ ~InUnresolved("customerName")
                    /\ parameters["customerName"].label = got.opts[1].label
                    /\ parameters["customerName"].value =
                        Wrapped("customerName", got.opts[1].value)
                /\ (~got.raised /\ got.opts = <<>>) =>
                    /\ InUnresolved("customerName")
                    /\ "customerName" \notin DOMAIN parameters

\* the search returned two customers and the first one was taken
C5_Witness ==
    /\ pc = "done"
    /\ "customerName" \in ExNames
    /\ ValOf(extracted, "customerName").needs
    /\ \E i \in AnswersFor("customerName") :
        /\ Len(calls[i].got.opts) >= 2
        /\ calls[i].got.opts[1] # calls[i].got.opts[2]
        /\ parameters["customerName"].label = calls[i].got.opts[1].label

\* C7: every entry of the resolved parameter map has a non-null value, for
\* every extraction result and every list of options or customers the
\* lookups may return.
C7_ValueNeverNull ==
    \A n \in DOMAIN parameters : parameters[n].value.k # "null"

\* the message holds a bare number of 5 or 6 digits
HasBareId(msg) == \E i \in 1..Len(msg), n \in {5, 6} : CavIdAt(msg, i, n)
FirstBareId(msg) ==
    LET i == Least(CavIdStarts(msg)) IN
    IF CavIdAt(msg, i, 6) THEN SubSeq(msg, i, i + 5) ELSE SubSeq(msg, i, i + 4)

\* C6: when the message contains a bare 5-6 digit number, extract_parameters
\* returns for customerName a resolved pair whose label and value equal that
\* number and which carries no needs_resolution tag, so that the resolver
\* places it in the resolved map without calling the customer search.
C6_BareIdIsResolved ==
    ( /\ pc \in {"missing", "loop", "await", "done", "escaped"}
      /\ message # <<>>
      /\ "customerName" \in ExNames
      /\ HasBareId(message) ) =>
        LET v == ValOf(extracted, "customerName") IN
        /\ ~v.isNone
        /\ v.label = Str(FirstBareId(message))
        /\ v.value = Str(FirstBareId(message))
        /\ ~v.needs
        /\ \A c \in CallsMade : c.fn # "search_customers"
        /\ (pc = "done" => "customerName" \in DOMAIN parameters)

(***************************************************************************)
(* Claims about _ask_structured, checked under Spec.                       *)
(***************************************************************************)
\* the handler has ended, or stands at the call of call_structured
AfterResolverReturn ==
    message # <<>> /\ pc \in {"returned", "raised", "call_structured"}

\* the text is the missing-parameter prompt
IsPrompt(text) ==
    /\ Len(text) >= 4
    /\ text[1] = <<"Found question: '", question.label, "'">>
    /\ text[2] = <<"Missing required parameters:">>

\* a line of the prompt names n
PromptNames(text, n) ==
    \E j \in 3..Len(text) : Len(text[j]) = 4 /\ text[j][2] = n

\* C12: in a structured ask, whenever the resolver returns a non-empty
\* unresolved list, the handler does not go on to the backend message call:
\* it returns, as a string and not by raising, the missing-parameter prompt,
\* and the prompt names every unresolved parameter.
C12_UnresolvedGetsPrompt ==
    (AfterResolverReturn /\ unresolvable # <<>>) =>
        /\ pc = "returned"
        /\ reply.kind = "returned"
        /\ IsPrompt(reply.text)
        /\ \A i \in 1..Len(unresolvable) :
                PromptNames(reply.text, unresolvable[i])

\* the resolver left two names unresolved and the prompt was returned
C12_Witness ==
    /\ pc = "returned"
    /\ Len(unresolvable) = 2
    /\ unresolvable[1] # unresolvable[2]
    /\ reply.kind = "returned"
    /\ calls # <<>>

(***************************************************************************)
(* Claims about the outcome fallback, checked under SpecOutcome.           *)
(***************************************************************************)
OutcomeNames == ExNames \cap {"outcome", "outcomes"}

\* the answered calls for n that matched the hint and found no option
Unmatched(n) ==
    {i \in AnswersFor(n) :
        /\ calls[i].call.via = "resolve"
        /\ ~calls[i].got.raised
        /\ ~MatchFrom(n, calls[i].call.text, calls[i].got.opts).found}

\* every lookup made for n returned at least one option, and there was one
OnlyFilledAnswers(n) ==
    /\ AnswersFor(n) # {}
    /\ \A i \in AnswersFor(n) : ~calls[i].got.raised /\ calls[i].got.opts # <<>>

\* C13: for an outcome parameter (outcome or outcomes) that carries a hint,
\* if the hint matches no option the resolver goes on to an auto-selection
\* lookup for the same parameter, without a hint; and whenever the lookups
\* made for the parameter return at least one option, the parameter ends in
\* the resolved map, with the first option of the auto-selection when the
\* hint matched none, and not in the unresolved list.
C13_OutcomeFallsBack ==
    InResolver =>
        \A n \in OutcomeNames :
            ValOf(extracted, n).needs =>
                /\ \A i \in Unmatched(n) :
                        \/ \E j \in AnswersFor(n) :
                                j = i + 1 /\ calls[j].call.via = "fallback"
                        \/ /\ i = Len(calls)
                           /\ inflight # <<>>
                           /\ Head(inflight).name = n
                           /\ Head(inflight).via = "fallback"
                /\ (Finished(n) /\ OnlyFilledAnswers(n)) =>
                        /\ n \in DOMAIN parameters
                        /\ ~InUnresolved(n)
                        /\ \A i \in Unmatched(n) :
                                parameters[n].label =
                                    calls[i + 1].got.opts[1].label

\* a hint that no option carries, two options from the fallback lookup, and
\* the outcome parameter resolved to the first of them
C13_Witness ==
    /\ pc = "done"
    /\ \E n \in OutcomeNames :
        /\ ValOf(extracted, n).needs
        /\ \E i \in Unmatched(n) :
            /\ calls[i].got.opts # <<>>
            /\ Len(calls[i + 1].got.opts) = 2
        /\ n \in DOMAIN parameters
        /\ ~InUnresolved(n)

(***************************************************************************)
(* Claims about the multiple wrapping, checked under SpecMultiple.         *)
(***************************************************************************)
\* the pair n was resolved to: the extracted one when no lookup was made for
\* n, else what the last lookup's answer was resolved to
Chosen(n) ==
    IF AnswersFor(n) = {}
    THEN [label |-> ValOf(extracted, n).label,
          value |-> ValOf(extracted, n).value]
    ELSE LET i == CHOOSE i \in AnswersFor(n) : \A j \in AnswersFor(n) : j <= i
             c == calls[i].call
             opts == calls[i].got.opts
             sel == IF c.via = "search" THEN opts[1]
                    ELSE IF c.via \in {"auto", "fallback"}
                    THEN AutoSelectFrom(n, c.prefer, opts)
                    ELSE MatchFrom(n, c.text, opts)
         IN  [label |-> sel.label, value |-> sel.value]

\* the resolved value of n before the multiple wrapping
ResolvedValue(n) ==
    IF n \in {"outcome", "outcomes"} /\ _uses_summary_as_value(question, n)
    THEN Chosen(n).label ELSE Chosen(n).value

\* C19: in the resolved parameter map, the value of every parameter whose
\* definition declares multiple is a sequence: a scalar resolved value is
\* wrapped in a one-element sequence, a value that is already a sequence is
\* left as it is; the value of a parameter that does not declare multiple is
\* the resolved value, never wrapped.
C19_MultipleIsSequence ==
    InResolver =>
        \A n \in DOMAIN parameters :
            LET multiple == _get_param_def(question, n).multiple
                rv == ResolvedValue(n)
                v == parameters[n].value
            IN  /\ multiple => v.k = "list"
                /\ (multiple /\ rv.k # "list") => v = ListOf(rv)
                /\ (multiple /\ rv.k = "list") => v = rv
                /\ ~multiple => v = rv

\* a map with a scalar that was wrapped and a list that was left alone, both
\* for parameters that declare multiple
C19_Witness ==
    /\ pc = "done"
    /\ \E n, m \in DOMAIN parameters :
        /\ _get_param_def(question, n).multiple
        /\ _get_param_def(question, m).multiple
        /\ ResolvedValue(n).k = "str"
        /\ parameters[n].value = ListOf(ResolvedValue(n))
        /\ ResolvedValue(m).k = "list"
        /\ parameters[m].value = ResolvedValue(m)

(***************************************************************************)
(* Claims about extract_parameters, checked under SpecExtract.             *)
(***************************************************************************)
ExtractProbed == pc = "probed" /\ probe.fn = "extract_parameters"
\* extracted[name] of the probed call
ProbeVal == probe.got[1].val

\* the declared options whose value or label the message contains
DeclaredHits(pdef, msg) ==
    {i \in 1..Len(OptionsOf(pdef)) :
        \/ Contains(Lower(OptionsOf(pdef)[i].value), Lower(msg))
        \/ Contains(Lower(OptionsOf(pdef)[i].label), Lower(msg))}

\* the pair of a static option
PairOf(opt) == ExPlain(Str(opt.label), Str(opt.value))

\* C16: for every static-select parameter that declares its own option
\* list, whatever its name, if the message contains (ignoring case) the label
\* or the value of a declared option, extract_parameters returns the first
\* such declared option and not null; and only when no declared option
\* matches is the result an option of the global static-options table.
C16_DeclaredOptionsFirst ==
    ( /\ ExtractProbed
      /\ probe.pdef.subtype = "static"
      /\ OptionsOf(probe.pdef) # <<>> ) =>
        LET hits == DeclaredHits(probe.pdef, probe.msg)
            name == probe.pdef.name
        IN  /\ hits # {} =>
                ProbeVal = PairOf(OptionsOf(probe.pdef)[Least(hits)])
            /\ (hits = {} /\ ~ProbeVal.isNone) =>
                /\ name \in DOMAIN STATIC_OPTIONS
                /\ \E i \in 1..Len(STATIC_OPTIONS[name]) :
                        ProbeVal = PairOf(STATIC_OPTIONS[name][i])

NameSpecific ==
    {"dealId", "opportunityId", "accountId", "customerName", "productName",
     "service"} \cup DOMAIN STATIC_OPTIONS

\* C17: for a parameter of subtype remote that no name-specific rule
\* handles, extract_parameters never returns null: the result is either a
\* pair tagged needs_resolution whose label and value are the hint found in
\* the message, or the tag auto_resolve alone when no hint is found; the two
\* tags never occur together.
C17_RemoteNeverNull ==
    ( /\ ExtractProbed
      /\ probe.pdef.subtype = "remote"
      /\ probe.pdef.name \notin NameSpecific ) =>
        LET hint == _extract_remote_hint(probe.pdef.name, probe.msg) IN
        /\ ~ProbeVal.isNone
        /\ ~(ProbeVal.needs /\ ProbeVal.auto)
        /\ ProbeVal.needs \/ ProbeVal.auto
        /\ ProbeVal.needs <=> Truthy(hint)
        /\ ProbeVal.needs =>
            /\ ProbeVal.label = hint
            /\ ProbeVal.value = hint
            /\ Contains(Lower(hint.s), Lower(probe.msg))
        /\ ProbeVal.auto =>
            /\ ProbeVal.label = Absent
            /\ ProbeVal.value = Absent

\* a hint was found for one remote parameter
C17_Witness ==
    /\ ExtractProbed
    /\ probe.pdef.name = "deployment"
    /\ ProbeVal.needs
    /\ ProbeVal.label = Str(<<"e", "a", "s", "t", "-", "1">>)

\* the products the message matches by each strategy
ByExactKey(msg) ==
    {i \in 1..Len(PRODUCTS) : Contains(PRODUCTS[i].value, Upper(msg))}
BySpacedKey(msg) ==
    {i \in 1..Len(PRODUCTS) : Contains(Spaced(PRODUCTS[i].value), Upper(msg))}
ByLabel(msg) ==
    {i \in 1..Len(PRODUCTS) : Contains(Lower(PRODUCTS[i].label), Lower(msg))}
ByShortName(msg) ==
    {i \in 1..Len(PRODUCTS) :
        \E k \in 1..Len(_SHORT_NAMES) :
            /\ _SHORT_NAMES[k].api_value = PRODUCTS[i].value
            /\ WholeWordIn(_SHORT_NAMES[k].short, Lower(msg))}

\* the matches of the first strategy, in the order of priority, that has any
TopStrategy(msg) ==
    IF ByExactKey(msg) # {} THEN ByExactKey(msg)
    ELSE IF BySpacedKey(msg) # {} THEN BySpacedKey(msg)
    ELSE IF ByLabel(msg) # {} THEN ByLabel(msg)
    ELSE ByShortName(msg)

\* C20: when a message matches several products through different
\* strategies, the product extraction returns a product matched by the
\* strategy of highest priority, in the order exact API key, key with
\* underscores as spaces, full label, short alias, wherever the products
\* stand in the product table; it returns null only when no strategy matches.
C20_StrategyPriority ==
    (ExtractProbed /\ probe.pdef.name = "productName") =>
        IF TopStrategy(probe.msg) = {} THEN ProbeVal.isNone
        ELSE /\ ~ProbeVal.isNone
             /\ \E i \in TopStrategy(probe.msg) :
                    ProbeVal = ExPlain(Str(PRODUCTS[i].label),
                                       Str(PRODUCTS[i].value))

(***************************************************************************)
(* Claims about find_best_question, checked under SpecMatch.               *)
(***************************************************************************)
MatchProbed == pc = "probed" /\ probe.fn = "find_best_question"

\* the score of the message against the i-th entry of the catalog
ScoreOf(i) ==
    token_set_ratio(probe.msg, ChoiceText(_CATALOG.entries[i]), Score(0, 1))

\* the entries no other entry scores higher than
TopScored ==
    {i \in 1..Len(_CATALOG.entries) :
        \A j \in 1..Len(_CATALOG.entries) : ScoreGeq(ScoreOf(i), ScoreOf(j))}

ReachesThreshold(i) == ScoreGeq(ScoreOf(i), Score(probe.threshold, 1))

\* C14: find_best_question returns the catalog entry with the highest score
\* when that score is at least the threshold, the first such entry in
\* catalog order when several entries share the highest score, and None
\* when no entry reaches the threshold.
C14_FirstHighestScore ==
    MatchProbed =>
        LET top == {i \in TopScored : ReachesThreshold(i)} IN
        IF top = {} THEN ~probe.got.found
        ELSE probe.got = Found(_CATALOG.entries[Least(top)])

\* two entries share the highest score and the first is returned
C14_Witness ==
    /\ MatchProbed
    /\ \E i, j \in TopScored : i < j /\ ReachesThreshold(i)
    /\ probe.got.found
    /\ probe.got.entry.id = "q1"
    /\ probe.threshold = 75

\* C15: for every catalog and every entry of it, the matcher called with the
\* entry's own label as the message returns that same entry, also when the
\* tokens of the label are contained in the label-plus-template text of
\* another entry.
C15_OwnLabelReturnsEntry ==
    MatchProbed =>
        \A k \in 1..Len(_CATALOG.entries) :
            probe.msg = _CATALOG.entries[k].label =>
                probe.got = Found(_CATALOG.entries[k])

(***************************************************************************)
(* Claims about the routing module across calls, checked under SpecModule. *)
(***************************************************************************)
LoggedExtractions == {i \in 1..Len(log) : log[i].fn = "extract_parameters"}

HintAnswers ==
    {i \in 1..Len(calls) :
        /\ calls[i].call.via \in {"resolve", "plain"}
        /\ calls[i].call.name \notin {"outcome", "outcomes"}
        /\ ~calls[i].got.raised
        /\ Finished(calls[i].call.name)}

HintText(i) == Lower(Strip(calls[i].call.text.s))

\* the options that equal the hint, by label or value
EqualToHint(i) ==
    {k \in 1..Len(calls[i].got.opts) :
        LET o == calls[i].got.opts[k] IN
        \/ HintText(i) = LowerOrEmpty(o.label)
        \/ HintText(i) = LowerOrEmpty(o.value)}

\* the options that contain the hint or are contained in it
OverlapHint(i) ==
    {k \in 1..Len(calls[i].got.opts) :
        LET o == calls[i].got.opts[k] IN
        \/ Contains(HintText(i), LowerOrEmpty(o.label))
        \/ Contains(LowerOrEmpty(o.label), HintText(i))
        \/ Contains(HintText(i), LowerOrEmpty(o.value))
        \/ Contains(LowerOrEmpty(o.value), HintText(i))}

\* the options flagged primary, when the hint of a deployment asks for it
FlaggedForHint(i) ==
    IF /\ calls[i].call.name \in {"deployment", "deploymentList"}
       /\ Contains(T_primary, HintText(i))
    THEN {k \in 1..Len(calls[i].got.opts) : calls[i].got.opts[k].is_primary}
    ELSE {}

\* n is resolved to option k of answer i
ResolvedToOption(i, k) ==
    LET n == calls[i].call.name
        o == calls[i].got.opts[k]
    IN  /\ n \in DOMAIN parameters
        /\ ~InUnresolved(n)
        /\ parameters[n].label = o.label
        /\ parameters[n].value = Wrapped(n, o.value)

LeftUnresolved(i) ==
    /\ InUnresolved(calls[i].call.name)
    /\ calls[i].call.name \notin DOMAIN parameters

\* C21: resolve_remote_param matches a hint in two tiers over the whole
\* option list: if some option's label or value equals the hint, ignoring
\* case, the first such option is returned even when an earlier option
\* matches by substring only; otherwise the first option whose label or
\* value contains the hint or is contained in it; if no option matches in
\* either tier the result is None and the resolver puts a parameter that is
\* no outcome parameter in the unresolved list.
C21_TwoTierMatch ==
    \A i \in HintAnswers :
        IF EqualToHint(i) # {} THEN ResolvedToOption(i, Least(EqualToHint(i)))
        ELSE IF OverlapHint(i) # {}
        THEN ResolvedToOption(i, Least(OverlapHint(i)))
        ELSE LeftUnresolved(i)

\* C21 as the code has it: for a deployment parameter whose hint contains
\* "primary", the first option flagged primary is returned when there is one;
\* in every other case the two tiers decide as in C21.
C21_PrimaryThenTwoTier ==
    \A i \in HintAnswers :
        IF FlaggedForHint(i) # {}
        THEN ResolvedToOption(i, Least(FlaggedForHint(i)))
        ELSE IF EqualToHint(i) # {}
        THEN ResolvedToOption(i, Least(EqualToHint(i)))
        ELSE IF OverlapHint(i) # {}
        THEN ResolvedToOption(i, Least(OverlapHint(i)))
        ELSE LeftUnresolved(i)

\* the second option equals the hint, the first matches it by substring
C21_Witness ==
    /\ pc = "done"
    /\ \E i \in HintAnswers :
        /\ FlaggedForHint(i) = {}
        /\ Least(EqualToHint(i) \cup {3}) = 2
        /\ 1 \in OverlapHint(i)
        /\ ResolvedToOption(i, 2)

(***************************************************************************)
(* Claims about the outcome value override, checked under SpecOutcome.     *)
(***************************************************************************)
\* the definition of n sources the value field from OUTCOME_SUMMARY
SourcesSummary(n) ==
    \E i \in 1..Len(question.parameters) :
        /\ question.parameters[i].name = n
        /\ question.parameters[i].valueField = "OUTCOME_SUMMARY"

\* C22: for an outcome parameter whose catalog transform sources the value
\* field from OUTCOME_SUMMARY, the entry of the resolved map has its value
\* equal to its resolved label (before the multiple wrapping), whichever path
\* resolved it; for every other parameter, and for an outcome parameter
\* without that transform, the value is the value of the option.
C22_SummaryIsValue ==
    InResolver =>
        \A n \in DOMAIN parameters :
            /\ parameters[n].label = Chosen(n).label
            /\ parameters[n].value =
                Wrapped(n, IF n \in {"outcome", "outcomes"} /\ SourcesSummary(n)
                           THEN Chosen(n).label
                           ELSE Chosen(n).value)

\* an outcome parameter with the transform, resolved by the fallback
\* auto-selection, next to a deployment whose definition names the same field
C22_Witness ==
    /\ pc = "done"
    /\ "outcomes" \in DOMAIN parameters
    /\ SourcesSummary("outcomes")
    /\ \E i \in AnswersFor("outcomes") : calls[i].call.via = "fallback"
    /\ parameters["outcomes"].value = ListOf(Str(T_A))
    /\ "deployment" \in DOMAIN parameters
    /\ SourcesSummary("deployment")
    /\ parameters["deployment"].value # parameters["deployment"].label

(***************************************************************************)
(* Claims about _build_dependent_body, checked under SpecBody.             *)
(***************************************************************************)
BodyProbed == pc = "probed" /\ probe.fn = "_build_dependent_body"

\* the resolved parameter a declared field reads, "" when there is none
SourceOf(e) ==
    IF e.fieldName \in DOMAIN probe.parameters THEN e.fieldName
    ELSE IF e.fieldName = "deploymentList"
            /\ "deployment" \in DOMAIN probe.parameters
    THEN "deployment"
    ELSE IF e.fieldName = "deployment"
            /\ "deploymentList" \in DOMAIN probe.parameters
    THEN "deploymentList"
    ELSE ""

\* the fields of the declared binding that the body has to carry
DeclaredFields ==
    {i \in 1..Len(probe.pdef.binding) :
        \/ probe.pdef.binding[i].kind = "value"
        \/ SourceOf(probe.pdef.binding[i]) # ""}

\* what the body has to carry for a declared field
DeclaredValue(e) ==
    IF e.kind = "value" THEN e.value
    ELSE LET v == probe.parameters[SourceOf(e)].value IN
         IF e.transform = "to-array" /\ v.k # "list" THEN ListOf(v) ELSE v

\* C23: for a parameter with a declared API binding the body has, for each
\* declared field, the declared constant if there is one, otherwise the value
\* of the resolved source parameter (deployment for deploymentList and the
\* reverse when only the other is resolved), wrapped in a one-element
\* sequence when the field declares to-array and the value is scalar; a
\* field whose source is not resolved is omitted, and the body has no other
\* field.
C23_BodyFromBinding ==
    (BodyProbed /\ probe.pdef.binding # <<>>) =>
        /\ DOMAIN probe.got =
            {probe.pdef.binding[i].api_key : i \in DeclaredFields}
        /\ \A i \in DeclaredFields :
            probe.got[probe.pdef.binding[i].api_key] =
                DeclaredValue(probe.pdef.binding[i])

\* C24: the static fallback dependency table is used to build the lookup
\* body only when the definition declares no API binding: the body of a
\* parameter with a declared binding has declared fields only.
C24_FallbackOnlyWithoutBinding ==
    (BodyProbed /\ probe.pdef.binding # <<>>) =>
        DOMAIN probe.got \subseteq
            {probe.pdef.binding[i].api_key : i \in 1..Len(probe.pdef.binding)}

(***************************************************************************)
(* Claims about the order of the lookups in time, checked under Spec.      *)
(***************************************************************************)
\* the names that stand before n in the processing order
EarlierThan(n) ==
    {ordered_names[j] : j \in 1..(PositionIn(ordered_names, n) - 1)}

\* C25: during one invocation of the resolver at most one lookup call is in
\* flight at any time, and the lookup for a parameter is in flight only after
\* the processing of every parameter earlier in the order has finished,
\* resolved or unresolved: no lookups of two parameters run side by side.
C25_OneLookupAtATime ==
    InResolver =>
        /\ Len(inflight) <= 1
        /\ \A k \in 1..Len(inflight) :
            /\ pc = "await"
            /\ ordered_names[idx] = inflight[k].name
            /\ ~Settled(inflight[k].name)
            /\ \A m \in EarlierThan(inflight[k].name) :
                /\ Settled(m)
                /\ Finished(m)

\* the lookup of the second parameter in flight after the lookup of the
\* first one was answered
C25_Witness ==
    /\ pc = "await"
    /\ Len(inflight) = 1
    /\ idx = 2
    /\ Len(calls) = 1
    /\ calls[1].call.name = ordered_names[1]
    /\ calls[1].call.name \in DOMAIN parameters

(***************************************************************************)
(* Claims about the entries of the resolved map, checked under Spec.       *)
(***************************************************************************)
\* C26: every entry of the resolved parameter map has exactly the keys
\* label, value and hidden: the primary marker of a deployment option and the
\* extraction tags needs_resolution and auto_resolve are never in the map,
\* neither while the resolver runs nor when the map goes to the request
\* builder.
C26_CleanEntries ==
    \A n \in DOMAIN parameters :
        DOMAIN parameters[n] = {"label", "value", "hidden"}

\* a deployment resolved to the option flagged primary, and a second entry
\* taken from an extraction, in the map that is handed on
C26_Witness ==
    /\ pc = "done"
    /\ unresolvable = <<>>
    /\ "deployment" \in DOMAIN parameters
    /\ \E i \in AnswersFor("deployment") :
        \E k \in 1..Len(calls[i].got.opts) :
            /\ calls[i].got.opts[k].is_primary
            /\ parameters["deployment"].label = calls[i].got.opts[k].label
    /\ "dealId" \in DOMAIN parameters

\* the positions of the unresolved list that hold n
UnresolvedAt(n) == {i \in 1..Len(unresolvable) : unresolvable[i] = n}

\* the extraction of n is null
NullExtracted(n) == ValOf(extracted, n).isNone

\* a lookup for n raised
RaisedFor(n) == \E i \in AnswersFor(n) : calls[i].got.raised

\* C27: when _resolve_params_with_lookups returns, every name of the
\* extracted mapping is a key of the resolved map or an element of the
\* unresolved list, never both, and is in the unresolved list at most once;
\* a name whose extraction is null is in the unresolved list and no lookup
\* was made for it.  A lookup that raised changes none of this.
C27_ResolvedOrUnresolved ==
    pc = "done" =>
        \A n \in ExNames :
            /\ (n \in DOMAIN parameters) # InUnresolved(n)
            /\ Cardinality(UnresolvedAt(n)) <= 1
            /\ NullExtracted(n) => InUnresolved(n) /\ AnswersFor(n) = {}

\* a return with a null extraction and a parameter whose lookup raised
C27_Witness ==
    /\ pc = "done"
    /\ \E n \in ExNames : NullExtracted(n) /\ InUnresolved(n)
    /\ \E m \in ExNames : RaisedFor(m) /\ InUnresolved(m)

(***************************************************************************)
(* Claims about _ask_structured, checked under SpecAsk.                    *)
(***************************************************************************)
NullNames == {n \in ExNames : NullExtracted(n)}

\* C29: in a structured ask in which the extraction of some parameter is
\* null, the handler has returned the missing-parameter message, whose
\* lines name the null-extracted parameters and no other, and no cookies
\* were loaded, no customer search and no option lookup was made and none
\* is in flight, and the backend call is not reached.
C29_MissingBeforeCookies ==
    message # <<>> /\ NullNames # {} =>
        /\ pc = "missing"
        /\ reply.kind = "returned"
        /\ IsPrompt(reply.text)
        /\ Len(reply.text) = 4 + Cardinality(NullNames)
        /\ \A n \in ExNames : PromptNames(reply.text, n) <=> n \in NullNames
        /\ log = <<>>
        /\ calls = <<>>
        /\ inflight = <<>>

\* a message that gives one of two parameters and not the other
C29_Witness ==
    /\ pc = "missing"
    /\ NullNames # {}
    /\ ExNames \ NullNames # {}
    /\ \E n \in NullNames : PromptNames(reply.text, n)
    /\ log = <<>>

(***************************************************************************)
(* A claim about extracted values that need no lookup, checked under       *)
(* SpecMultiple.                                                           *)
(***************************************************************************)
\* the extraction of n is a label and a value without a tag, and the
\* definition of n is not of subtype remote
PlainLocal(n) ==
    /\ ~NullExtracted(n)
    /\ ~Tagged(n)
    /\ _get_param_def(question, n).subtype # "remote"

\* the loop body of n has run
Processed(n) == pc = "done" \/ PositionIn(ordered_names, n) < idx

\* C30: a parameter whose extraction carries neither needs_resolution nor
\* auto_resolve and whose definition is not of subtype remote is put in the
\* resolved map with the extracted label and the extracted value, the value
\* wrapped in a list when the definition declares multiple and it is not a
\* list, and no lookup call is ever made for it.
C30_PlainPassesThrough ==
    InResolver =>
        \A n \in ExNames :
            PlainLocal(n) =>
                /\ AnswersFor(n) = {}
                /\ ~InFlightFor(n)
                /\ ~InUnresolved(n)
                /\ Processed(n) =>
                    /\ n \in DOMAIN parameters
                    /\ parameters[n].label = ValOf(extracted, n).label
                    /\ parameters[n].value =
                           Wrapped(n, ValOf(extracted, n).value)

\* a dealId declared multiple returned next to a parameter that was looked up
C30_Witness ==
    /\ pc = "done"
    /\ "dealId" \in ExNames
    /\ PlainLocal("dealId")
    /\ _get_param_def(question, "dealId").multiple
    /\ "dealId" \in DOMAIN parameters
    /\ parameters["dealId"].value = ListOf(ValOf(extracted, "dealId").value)
    /\ calls # <<>>

=============================================================================
